---- MODULE Spec2Model ----
(***************************************************************************)
(* Command resolution and execution engine of nyxstack/cli.                *)
(*                                                                         *)
(* A string is a sequence of one-character strings, so that the prefix     *)
(* tests, the split at '=' and the numeric conversions are computed as the *)
(* Go code computes them.                                                  *)
(***************************************************************************)
EXTENDS Integers, Sequences, FiniteSets, TLC

VARIABLES
    parent,        \* Command.parent, None for a root
    subcommands,   \* Command.subcommands: name -> command
    commands,      \* the other configuration fields of every Command
    flags,         \* Command.flags.flags: the Flag objects of each command
    store,         \* the caller-owned variables the flags point to
    pc,            \* position of the running Execute call
    cur,           \* receiver c of the current execute frame
    argv,          \* args of the current execute frame
    resolved,      \* receiver c of executeAction
    remaining,     \* positional tokens handed to executeAction
    idx,           \* loop index into the ancestor chain
    result,        \* value returned by Execute
    calls,         \* user functions invoked so far, in order, with what
                   \* each returned
    helpShown,     \* command whose help was printed
    entry,         \* receiver of the ExecuteWithArgs call
    input,         \* token vector given to ExecuteWithArgs
    ctx            \* context.Context given to execute

vars == <<parent, subcommands, commands, flags, store, pc, cur, argv,
          resolved, remaining, idx, result, calls, helpShown, entry, input,
          ctx>>

config == <<parent, subcommands, commands>>

None == "none"

(***************************************************************************)
(* Bounds                                                                  *)
(***************************************************************************)
MaxTokens == 3

\* the most Flag calls made on one command
MaxFlags == 2

\* the length of the list variable beyond which no further call is made
MaxTags == 3

\* the most tokens of a vector that gives numbers to a narrow integer flag
MaxNumbers == 2

(***************************************************************************)
(* Strings                                                                 *)
(***************************************************************************)
s_app      == <<"a","p","p">>
s_db       == <<"d","b">>
s_migrate  == <<"m","i","g","r","a","t","e">>
s_deploy   == <<"d","e","p","l","o","y">>
s_status   == <<"s","t","a","t","u","s">>
s_verbose  == <<"v","e","r","b","o","s","e">>
s_v        == <<"v">>
s_trace    == <<"t","r","a","c","e">>
s_timeout  == <<"t","i","m","e","o","u","t">>
s_t        == <<"t">>
s_help     == <<"h","e","l","p">>
s_h        == <<"h">>
s_prod     == <<"p","r","o","d">>
s_env      == <<"e","n","v">>
s_60       == <<"6","0">>
s_true     == <<"t","r","u","e">>
s_empty    == <<>>
s_false    == <<"f","a","l","s","e">>
s_apikey   == <<"a","p","i","-","k","e","y">>
s_secret   == <<"s","e","c","r","e","t">>
s_port     == <<"p","o","r","t">>
s_p        == <<"p">>
s_8080     == <<"8","0","8","0">>
s_level    == <<"l", "e", "v", "e", "l">>
s_l        == <<"l">>
s_200 == <<"2", "0", "0">>
s_127 == <<"1", "2", "7">>
s_128 == <<"1", "2", "8">>
s_m128 == <<"-", "1", "2", "8">>
s_m129 == <<"-", "1", "2", "9">>
s_255 == <<"2", "5", "5">>
s_256 == <<"2", "5", "6">>
s_32767 == <<"3", "2", "7", "6", "7">>
s_32768 == <<"3", "2", "7", "6", "8">>
s_65535 == <<"6", "5", "5", "3", "5">>
s_65536 == <<"6", "5", "5", "3", "6">>
s_m1 == <<"-", "1">>
s_a        == <<"a">>
s_b        == <<"b">>
s_c        == <<"c">>
s_d        == <<"d">>
s_force    == <<"f", "o", "r", "c", "e">>
s_apiserver == <<"a", "p", "i", "-", "s", "e", "r", "v", "e", "r">>
s_target   == <<"t", "a", "r", "g", "e", "t">>
s_rest     == <<"r", "e", "s", "t">>
s_usage    == <<"u","s","a","g","e">>
s_u        == <<"u">>
s_bashcomplete == <<"_", "_", "b", "a", "s", "h", "c", "o", "m", "p", "l", "e", "t", "e">>
s_zshcomplete == <<"_", "_", "z", "s", "h", "c", "o", "m", "p", "l", "e", "t", "e">>
s_fishcomplete == <<"_", "_", "f", "i", "s", "h", "c", "o", "m", "p", "l", "e", "t", "e">>
s_powershellcomplete == <<"_", "_", "p", "o", "w", "e", "r", "s", "h", "e", "l", "l", "c", "o", "m", "p", "l", "e", "t", "e">>
s_tag      == <<"t","a","g">>
s_v1       == <<"v","1">>
s_v2       == <<"v","2">>
s_v3       == <<"v","3">>

\* strings.HasPrefix(s, p)
HasPrefix(s, p) == Len(s) >= Len(p) /\ SubSeq(s, 1, Len(p)) = p

\* strings.Index(s, "=") as a 1-based position, 0 when absent
IndexEq(s) ==
    IF \E i \in 1..Len(s) : s[i] = "="
    THEN CHOOSE i \in 1..Len(s) : s[i] = "=" /\ \A j \in 1..(i-1) : s[j] # "="
    ELSE 0

Dash(s)      == <<"-">> \o s
DashDash(s)  == <<"-","-">> \o s
WithValue(s, v) == s \o <<"=">> \o v

(***************************************************************************)
(* TypedValue converter                                                    *)
(***************************************************************************)
Digits == {"0","1","2","3","4","5","6","7","8","9"}

DigitVal(ch) ==
    CASE ch = "0" -> 0 [] ch = "1" -> 1 [] ch = "2" -> 2 [] ch = "3" -> 3
      [] ch = "4" -> 4 [] ch = "5" -> 5 [] ch = "6" -> 6 [] ch = "7" -> 7
      [] ch = "8" -> 8 [] ch = "9" -> 9

RECURSIVE DecimalValue(_)
DecimalValue(s) ==
    IF s = <<>> THEN 0
    ELSE 10 * DecimalValue(SubSeq(s, 1, Len(s) - 1)) + DigitVal(s[Len(s)])

\* Range of a signed integer of the given width.  Every number the model can
\* write has at most nine digits and so fits in 32 and in 64 bits; only the
\* narrow widths can overflow.
FitsSigned(val, bits) ==
    CASE bits = 8  -> val >= -128 /\ val <= 127
      [] bits = 16 -> val >= -32768 /\ val <= 32767
      [] OTHER     -> TRUE

\* ParseInt without the range check: the low bits of the number are kept,
\* as a conversion int8(n) would
ParseIntWraps(s, bits) ==
    LET signed == s # <<>> /\ s[1] \in {"+", "-"}
        digits == IF signed THEN Tail(s) ELSE s
        wellFormed == digits # <<>> /\ \A i \in 1..Len(digits) : digits[i] \in Digits
        mag == DecimalValue(digits)
        val == IF signed /\ s[1] = "-" THEN 0 - mag ELSE mag
        low == val % (2 ^ bits)
    IN  IF ~wellFormed THEN [ok |-> FALSE, val |-> 0]
        ELSE IF bits >= 32 THEN [ok |-> TRUE, val |-> val]
        ELSE [ok |-> TRUE,
              val |-> IF low >= 2 ^ (bits - 1) THEN low - 2 ^ bits ELSE low]

\* strconv.ParseInt(s, 10, bits): optional sign, decimal digits, range check
ParseInt(s, bits) ==
    LET signed == s # <<>> /\ s[1] \in {"+", "-"}
        digits == IF signed THEN Tail(s) ELSE s
        wellFormed == digits # <<>> /\ \A i \in 1..Len(digits) : digits[i] \in Digits
        mag == DecimalValue(digits)
        val == IF signed /\ s[1] = "-" THEN 0 - mag ELSE mag
    IN  IF ~wellFormed THEN [ok |-> FALSE, val |-> 0]
        ELSE IF ~FitsSigned(val, bits) THEN [ok |-> FALSE, val |-> 0]
        ELSE [ok |-> TRUE, val |-> val]

\* Range of an unsigned integer of the given width
FitsUnsigned(val, bits) ==
    CASE bits = 8  -> val <= 255
      [] bits = 16 -> val <= 65535
      [] OTHER     -> TRUE

\* strconv.ParseUint(s, 10, bits): decimal digits without a sign, range check
ParseUint(s, bits) ==
    IF s = <<>> \/ \E i \in 1..Len(s) : s[i] \notin Digits
    THEN [ok |-> FALSE, val |-> 0]
    ELSE IF ~FitsUnsigned(DecimalValue(s), bits) THEN [ok |-> FALSE, val |-> 0]
    ELSE [ok |-> TRUE, val |-> DecimalValue(s)]

TrueStrings  == { <<"1">>, <<"t">>, <<"T">>, <<"T","R","U","E">>,
                  <<"t","r","u","e">>, <<"T","r","u","e">> }
FalseStrings == { <<"0">>, <<"f">>, <<"F">>, <<"F","A","L","S","E">>,
                  <<"f","a","l","s","e">>, <<"F","a","l","s","e">> }

\* strconv.ParseBool
ParseBool(s) ==
    IF s \in TrueStrings THEN [ok |-> TRUE, val |-> TRUE]
    ELSE IF s \in FalseStrings THEN [ok |-> TRUE, val |-> FALSE]
    ELSE [ok |-> FALSE, val |-> FALSE]

\* Go types of the variables flags and handler parameters are declared with
Types == {"bool", "int", "int8", "int16", "uint8", "uint16", "string",
          "[]string"}

\* reflect.Int .. reflect.Int64 and reflect.Uint .. reflect.Uint64
SignedTypes   == {"int", "int8", "int16"}
UnsignedTypes == {"uint8", "uint16"}

\* reflect.Type.Bits
Bits(typ) ==
    CASE typ \in {"int8", "uint8"}   -> 8
      [] typ \in {"int16", "uint16"} -> 16
      [] OTHER                       -> 64

\* setValue with the slice replaced by the new element instead of grown
ConvertValueOverwrites(typ, old, text) ==
    CASE typ = "string"   -> [ok |-> TRUE, val |-> text]
      [] typ = "bool"     -> ParseBool(text)
      [] typ \in SignedTypes   -> ParseInt(text, Bits(typ))
      [] typ \in UnsignedTypes -> ParseUint(text, Bits(typ))
      [] typ = "[]string" -> [ok |-> TRUE, val |-> <<text>>]

\* FlagSet.setValue: the value stored for the text, given the old value
ConvertValue(typ, old, text) ==
    CASE typ = "string"   -> [ok |-> TRUE, val |-> text]
      [] typ = "bool"     -> ParseBool(text)
      [] typ \in SignedTypes   -> ParseInt(text, Bits(typ))
      [] typ \in UnsignedTypes -> ParseUint(text, Bits(typ))
      [] typ = "[]string" -> [ok |-> TRUE, val |-> Append(old, text)]

\* reflect.Zero(t)
ZeroValue(typ) ==
    CASE typ = "string"   -> <<>>
      [] typ = "bool"     -> FALSE
      [] typ \in SignedTypes \cup UnsignedTypes -> 0
      [] typ = "[]string" -> <<>>

(***************************************************************************)
(* Errors                                                                  *)
(***************************************************************************)
Nil == [kind |-> "nil"]

CommandNotFoundError(name, c) ==
    [kind |-> "CommandNotFoundError", Name |-> name, Cmd |-> c]

FlagError(flag, msg, c) ==
    [kind |-> "FlagError", Flag |-> flag, Msg |-> msg, Cmd |-> c]

ArgumentError(arg, msg, c) ==
    [kind |-> "ArgumentError", Arg |-> arg, Msg |-> msg, Cmd |-> c]

\* the error value a user function of the given slot of command c returns
\* when it fails
UserError(slot, c) == [kind |-> "error", from |-> slot, owner |-> c]

\* a run-time panic of the Go program: Execute does not return
Panic(msg) == [kind |-> "panic", Msg |-> msg]

(***************************************************************************)
(* Commands, flags and the caller's variables                              *)
(***************************************************************************)
Commands == {"root", "db", "migrate", "deploy"}

\* the variables of the caller that flags are bound to, with their Go types
VarType ==
    [rootVerbose |-> "bool", dbVerbose |-> "bool", migrateVerbose |-> "bool",
     rootTrace |-> "bool", dbTrace |-> "bool", trace |-> "bool",
     timeout |-> "int", port |-> "int", tags |-> "[]string",
     apiKey |-> "string", level8 |-> "int8", level16 |-> "int16",
     ulevel8 |-> "uint8", ulevel16 |-> "uint16",
     oldPort |-> "int", newPort |-> "int"]

Variables == DOMAIN VarType

\* Flag.PrimaryName
PrimaryName(f) == IF Len(f.names) > 0 THEN f.names[1] ELSE <<>>

\* Flag.HasName
HasName(f, name) == \E i \in 1..Len(f.names) : f.names[i] = name

\* FlagSet.Add: the Flag object appended for (ptr, name, shorthand, default)
NewFlag(ptr, name, shorthand, defaultValue) ==
    [names    |-> IF shorthand # <<>> THEN <<name, shorthand>> ELSE <<name>>,
     ptr      |-> ptr,
     defValue |-> defaultValue,
     required |-> FALSE,
     hidden   |-> FALSE,
     set      |-> FALSE]

\* Command.FlagRequired on a flag set fs: the flag is added, then the first
\* flag of the set that has the name is marked required
FlagRequired(fs, ptr, name, shorthand, defaultValue) ==
    [i \in 1..(Len(fs) + 1) |->
        IF /\ HasName(Append(fs, NewFlag(ptr, name, shorthand, defaultValue))[i], name)
           /\ \A j \in 1..(i - 1) : ~HasName(fs[j], name)
        THEN [Append(fs, NewFlag(ptr, name, shorthand, defaultValue))[i]
                 EXCEPT !.required = TRUE]
        ELSE Append(fs, NewFlag(ptr, name, shorthand, defaultValue))[i]]

\* Command.FlagHidden on a flag set fs: the flag is added, then the first
\* flag of the set that has the name is marked hidden
FlagHidden(fs, ptr, name, shorthand, defaultValue) ==
    [i \in 1..(Len(fs) + 1) |->
        IF /\ HasName(Append(fs, NewFlag(ptr, name, shorthand, defaultValue))[i], name)
           /\ \A j \in 1..(i - 1) : ~HasName(fs[j], name)
        THEN [Append(fs, NewFlag(ptr, name, shorthand, defaultValue))[i]
                 EXCEPT !.hidden = TRUE]
        ELSE Append(fs, NewFlag(ptr, name, shorthand, defaultValue))[i]]

\* the chain built by appending instead of prepending: from c up to the root
RECURSIVE AncestorsLeafFirst(_)
AncestorsLeafFirst(c) ==
    IF c = None THEN <<>> ELSE <<c>> \o AncestorsLeafFirst(parent[c])

\* the chain of c from the root down to c (the ancestors loop of getAllFlags
\* and of executeAction)
RECURSIVE Ancestors(_)
Ancestors(c) == IF c = None THEN <<>> ELSE Append(Ancestors(parent[c]), c)

\* references <<c, i>> to the Flag objects of command c, in declaration order
FlagRefs(fl, c) == [i \in 1..Len(fl[c]) |-> <<c, i>>]

\* the Flag objects of the chain collected from the root down to the command
RECURSIVE RootFirst(_, _)
RootFirst(fl, c) ==
    IF c = None THEN <<>> ELSE RootFirst(fl, parent[c]) \o FlagRefs(fl, c)

\* the Flag objects of the chain, from the command itself outward to the root
RECURSIVE NearestFirst(_, _)
NearestFirst(fl, c) ==
    IF c = None THEN <<>> ELSE FlagRefs(fl, c) \o NearestFirst(fl, parent[c])

\* the filter without the seen map: every reference is kept
KeepEvery(fl, refs, seen) == refs

\* the seen-map filter of getAllFlags: keep the first reference of every
\* primary name
RECURSIVE KeepUnseen(_, _, _)
KeepUnseen(fl, refs, seen) ==
    IF refs = <<>> THEN <<>>
    ELSE LET r == Head(refs)
             primaryName == PrimaryName(fl[r[1]][r[2]])
         IN  IF primaryName \in seen
             THEN KeepUnseen(fl, Tail(refs), seen)
             ELSE <<r>> \o KeepUnseen(fl, Tail(refs), seen \cup {primaryName})

\* the flags of the command alone, the ancestors left out
getOwnFlags(fl, c) == KeepUnseen(fl, FlagRefs(fl, c), {})

\* Command.getAllFlags
getAllFlags(fl, c) == KeepUnseen(fl, NearestFirst(fl, c), {})

\* FlagSet.GetFlag on a flag set holding the referenced Flag objects:
\* the first one having the name, <<>> for nil
GetFlag(fl, refs, name) ==
    LET hits == {i \in 1..Len(refs) : HasName(fl[refs[i][1]][refs[i][2]], name)}
    IN  IF hits = {} THEN <<>>
        ELSE refs[CHOOSE i \in hits : \A j \in hits : i <= j]

(***************************************************************************)
(* FlagSet.Parse                                                           *)
(***************************************************************************)
\* The loop of Parse from token i on.  The result carries the flags and the
\* variables as the loop left them, also when it stops with an error.
\* the split of a flag token into name and value: the dashes are cut off and
\* the rest is split at the first '='
SplitFlag(arg) ==
    LET name == IF HasPrefix(arg, <<"-","-">>)
                THEN SubSeq(arg, 3, Len(arg)) ELSE SubSeq(arg, 2, Len(arg))
        eq   == IndexEq(name)
    IN  IF eq > 0
        THEN [flagName |-> SubSeq(name, 1, eq - 1),
              flagValue |-> SubSeq(name, eq + 1, Len(name)), hasValue |-> TRUE]
        ELSE [flagName |-> name, flagValue |-> <<>>, hasValue |-> FALSE]

\* the new token put in front of the ones collected so far
PrependRemaining(rem, arg) == <<arg>> \o rem

\* remaining = append(remaining, arg)
AppendRemaining(rem, arg) == Append(rem, arg)

RECURSIVE ParseFrom(_, _, _, _, _, _)

\* return nil, fmt.Errorf(...): the flags and the variables stay as the loop
\* left them
ParseFailed(fl, st, msg) ==
    [err |-> msg, remaining |-> <<>>, flags |-> fl, store |-> st]

\* the value is stored through the flag's pointer and flag.set = true; then
\* the loop goes on with the next token
ParseStored(refs, args, i, rem, fl, st, ref, val) ==
    CHOOSE out \in
        {ParseFrom(refs, args, i + 1, rem, marked, written) :
            marked \in {[fl EXCEPT ![ref[1]][ref[2]].set = TRUE]},
            written \in {[st EXCEPT ![fl[ref[1]][ref[2]].ptr] = val]}} : TRUE

\* the outcome of fs.setValue(flag, flagValue)
ParseConverted(refs, args, i, rem, fl, st, split, ref, conv) ==
    IF ~conv.ok
    THEN ParseFailed(fl, st, [text |-> "invalid value", name |-> split.flagName,
                              value |-> split.flagValue])
    ELSE ParseStored(refs, args, i, rem, fl, st, ref, conv.val)

\* a boolean flag always stored as true, the value after '=' left unread
ParseFlagIgnoresBoolValue(refs, args, i, rem, fl, st, split, ref, typ) ==
    IF typ = "bool"
    THEN ParseStored(refs, args, i, rem, fl, st, ref, TRUE)
    ELSE IF ~split.hasValue
    THEN ParseFailed(fl, st, [text |-> "requires a value", name |-> split.flagName])
    ELSE ParseConverted(refs, args, i, rem, fl, st, split, ref,
                        ConvertValue(typ, st[fl[ref[1]][ref[2]].ptr], split.flagValue))

\* a flag without '=' taking the token that follows it as its value
ParseFlagTakesNext(refs, args, i, rem, fl, st, split, ref, typ) ==
    IF typ = "bool" /\ ~split.hasValue
    THEN ParseStored(refs, args, i, rem, fl, st, ref, TRUE)
    ELSE IF ~split.hasValue /\ i < Len(args)
    THEN ParseConverted(refs, args, i + 1, rem, fl, st,
                        [split EXCEPT !.flagValue = args[i + 1]], ref,
                        ConvertValue(typ, st[fl[ref[1]][ref[2]].ptr], args[i + 1]))
    ELSE IF ~split.hasValue
    THEN ParseFailed(fl, st, [text |-> "requires a value", name |-> split.flagName])
    ELSE ParseConverted(refs, args, i, rem, fl, st, split, ref,
                        ConvertValue(typ, st[fl[ref[1]][ref[2]].ptr], split.flagValue))

\* the flag token once fs.GetFlag(flagName) has answered
ParseFlag(refs, args, i, rem, fl, st, split, ref, typ) ==
    IF typ = "bool" /\ ~split.hasValue
    THEN ParseStored(refs, args, i, rem, fl, st, ref, TRUE)
    ELSE IF ~split.hasValue
    THEN ParseFailed(fl, st, [text |-> "requires a value", name |-> split.flagName])
    ELSE ParseConverted(refs, args, i, rem, fl, st, split, ref,
                        ConvertValue(typ, st[fl[ref[1]][ref[2]].ptr], split.flagValue))

\* a token naming no flag of the set passed over instead of refused
ParseLookupSkipsUnknown(refs, args, i, rem, fl, st, split, ref) ==
    IF ref = <<>>
    THEN ParseFrom(refs, args, i + 1, rem, fl, st)
    ELSE ParseFlag(refs, args, i, rem, fl, st, split, ref,
                   VarType[fl[ref[1]][ref[2]].ptr])

\* fs.GetFlag(flagName) and the unknown-flag error
ParseLookup(refs, args, i, rem, fl, st, split, ref) ==
    IF ref = <<>>
    THEN ParseFailed(fl, st, [text |-> "unknown flag", name |-> split.flagName])
    ELSE ParseFlag(refs, args, i, rem, fl, st, split, ref,
                   VarType[fl[ref[1]][ref[2]].ptr])

\* a token beginning with '-'
ParseToken(refs, args, i, rem, fl, st, split) ==
    ParseLookup(refs, args, i, rem, fl, st, split, GetFlag(fl, refs, split.flagName))

\* The loop of Parse from token i on.
ParseFrom(refs, args, i, rem, fl, st) ==
    IF i > Len(args)
    THEN [err |-> Nil, remaining |-> rem, flags |-> fl, store |-> st]
    ELSE IF ~HasPrefix(args[i], <<"-">>)
    THEN ParseFrom(refs, args, i + 1, AppendRemaining(rem, args[i]), fl, st)
    ELSE ParseToken(refs, args, i, rem, fl, st, SplitFlag(args[i]))

Parse(refs, args, fl, st) == ParseFrom(refs, args, 1, <<>>, fl, st)

(***************************************************************************)
(* Command.callAction: binding the positional tokens to the handler        *)
(***************************************************************************)
\* convertArgument(args[i], argType) and the ArgumentError naming the
\* declaration when there is one
RECURSIVE BindFixed(_, _, _, _, _)
BindConverted(c, args, i, n, callArgs, conv) ==
    IF ~conv.ok
    THEN [err |-> ArgumentError(IF i < Len(commands[c].args)
                                THEN commands[c].args[i + 1].Name ELSE <<>>,
                                [text |-> "conversion", value |-> args[i + 1]], c),
          callArgs |-> callArgs]
    ELSE BindFixed(c, args, i + 1, n, Append(callArgs, conv.val))

\* the loop step without the check of Required: every missing argument is
\* given the zero value
BindParameterNeverRequired(c, args, i, n, callArgs, argType) ==
    IF i >= Len(args)
    THEN BindFixed(c, args, i + 1, n, Append(callArgs, ZeroValue(argType)))
    ELSE BindConverted(c, args, i, n, callArgs,
                       ConvertValue(argType, ZeroValue(argType), args[i + 1]))

\* one parameter of the loop, of type argType
BindParameter(c, args, i, n, callArgs, argType) ==
    IF i >= Len(args)
    THEN IF i < Len(commands[c].args) /\ commands[c].args[i + 1].Required
         THEN [err |-> ArgumentError(commands[c].args[i + 1].Name,
                                     [text |-> "required argument missing"], c),
               callArgs |-> callArgs]
         ELSE BindFixed(c, args, i + 1, n, Append(callArgs, ZeroValue(argType)))
    ELSE BindConverted(c, args, i, n, callArgs,
                       ConvertValue(argType, ZeroValue(argType), args[i + 1]))

\* the loop over the fixed parameters 0..n-1 (i counts from 0 as in the code)
BindFixed(c, args, i, n, callArgs) ==
    IF i >= n THEN [err |-> Nil, callArgs |-> callArgs]
    ELSE BindParameter(c, args, i, n, callArgs, commands[c].action.params[i + 1])

\* the loop filling the variadic slice from token k on
RECURSIVE BindVariadic(_, _, _, _, _)
BindElement(c, args, elemType, k, slice, conv) ==
    IF ~conv.ok
    THEN [err |-> ArgumentError(<<>>, [text |-> "conversion", value |-> args[k]], c),
          slice |-> slice]
    ELSE BindVariadic(c, args, elemType, k + 1, Append(slice, conv.val))

BindVariadic(c, args, elemType, k, slice) ==
    IF k > Len(args) THEN [err |-> Nil, slice |-> slice]
    ELSE BindElement(c, args, elemType, k, slice,
                     ConvertValue(elemType, ZeroValue(elemType), args[k]))

\* the variadic slice appended as the last argument
BindSlice(fixed, rest) ==
    IF rest.err # Nil
    THEN [err |-> rest.err, panic |-> FALSE, callArgs |-> <<>>]
    ELSE [err |-> Nil, panic |-> FALSE, callArgs |-> Append(fixed.callArgs, rest.slice)]

\* the variadic slice filled from one token too far
BindRestSkipsOne(c, args, action, numFixed, fixed) ==
    IF fixed.err # Nil
    THEN [err |-> fixed.err, panic |-> FALSE, callArgs |-> <<>>]
    ELSE IF ~action.variadic
    THEN [err |-> Nil, panic |-> FALSE, callArgs |-> fixed.callArgs]
    ELSE IF Len(args) - numFixed < 0
    THEN [err |-> Nil, panic |-> TRUE, callArgs |-> <<>>]
    ELSE BindSlice(fixed, BindVariadic(c, args, action.params[Len(action.params)],
                                       numFixed + 2, <<>>))

\* what follows the loop over the fixed parameters
BindRest(c, args, action, numFixed, fixed) ==
    IF fixed.err # Nil
    THEN [err |-> fixed.err, panic |-> FALSE, callArgs |-> <<>>]
    ELSE IF ~action.variadic
    THEN [err |-> Nil, panic |-> FALSE, callArgs |-> fixed.callArgs]
    ELSE IF Len(args) - numFixed < 0
    THEN [err |-> Nil, panic |-> TRUE, callArgs |-> <<>>]
    ELSE BindSlice(fixed, BindVariadic(c, args, action.params[Len(action.params)],
                                       numFixed + 1, <<>>))

\* numFixed: every parameter but the variadic one
NumFixed(action) ==
    IF action.variadic THEN Len(action.params) - 1 ELSE Len(action.params)

\* the argument list callAction builds, or the error it returns instead of
\* calling the handler, or the panic of reflect.MakeSlice on a negative length
BindArguments(c, args) ==
    BindRest(c, args, commands[c].action, NumFixed(commands[c].action),
             BindFixed(c, args, 0, NumFixed(commands[c].action), <<>>))

(***************************************************************************)
(* Command.ExecuteWithArgs and Command.execute                             *)
(***************************************************************************)
\* index of the first token that does not begin with '-', 0 if there is none
FirstNonFlag(args) ==
    LET plain == {i \in 1..Len(args) : ~HasPrefix(args[i], <<"-">>)}
    IN  IF plain = {} THEN 0 ELSE CHOOSE i \in plain : \A j \in plain : i <= j

\* the targetCmd loop of the help check: the first token naming a child of c
HelpTarget(c, args) ==
    LET named == {i \in 1..Len(args) : /\ ~HasPrefix(args[i], <<"-">>)
                                       /\ args[i] \in DOMAIN subcommands[c]}
    IN  IF named = {} THEN c
        ELSE subcommands[c][args[CHOOSE i \in named : \A j \in named : i <= j]]

\* an unmatched token taken for an argument as soon as the command has a
\* handler of its own
HasSubcommandsAndNoAction(c) ==
    DOMAIN subcommands[c] # {} /\ ~commands[c].action.defined

\* len(c.subcommands) > 0
HasSubcommands(c) == DOMAIN subcommands[c] # {}

\* the check that looks at the first flag of the list only
FirstUnsetRequiredHeadOnly(fl, refs) ==
    IF /\ Len(refs) > 0
       /\ fl[refs[1][1]][refs[1][2]].required
       /\ ~fl[refs[1][1]][refs[1][2]].set
    THEN refs[1] ELSE <<>>

\* the first required flag of the list that is not set, <<>> if there is none
FirstUnsetRequired(fl, refs) ==
    LET missing == {i \in 1..Len(refs) : /\ fl[refs[i][1]][refs[i][2]].required
                                         /\ ~fl[refs[i][1]][refs[i][2]].set}
    IN  IF missing = {} THEN <<>>
        ELSE refs[CHOOSE i \in missing : \A j \in missing : i <= j]

\* context.Background()
Background == "Background"

\* c.ExecuteWithArgs(args), for a command c and a token vector of the given set
ExecuteWithArgs(vectors) ==
    /\ pc = "idle"
    /\ \E c \in Commands, args \in vectors :
          /\ pc' = "execute"
          /\ cur' = c
          /\ argv' = args
          /\ entry' = c
          /\ input' = args
    /\ ctx' = Background
    /\ UNCHANGED <<config, flags, store, resolved, remaining, idx, result,
                   calls, helpShown>>

\* c.ExecuteContext(ctx) with os.Args[1:] one of the vectors: the context is
\* the caller's
ExecuteContext(contexts, vectors) ==
    /\ pc = "idle"
    /\ \E c \in Commands, args \in vectors, given \in contexts :
          /\ pc' = "execute"
          /\ cur' = c
          /\ argv' = args
          /\ entry' = c
          /\ input' = args
          /\ ctx' = given
    /\ UNCHANGED <<config, flags, store, resolved, remaining, idx, result,
                   calls, helpShown>>

\* a further call of ExecuteWithArgs on the same tree, after the one before
\* has returned: the Flag objects and the variables are the ones it left
ExecuteWithArgsAgain(vectors) ==
    /\ pc = "done"
    /\ result.kind # "panic"
    /\ \E c \in Commands, args \in vectors :
          /\ pc' = "execute"
          /\ cur' = c
          /\ argv' = args
          /\ entry' = c
          /\ input' = args
    /\ resolved' = None
    /\ remaining' = <<>>
    /\ idx' = 0
    /\ result' = Nil
    /\ calls' = <<>>
    /\ helpShown' = None
    /\ ctx' = Background
    /\ UNCHANGED <<config, flags, store>>

\* the state one call of execute leaves when it returns err at once
Return(c, args, err) ==
    [pc |-> "done", cur |-> c, argv |-> args, resolved |-> resolved,
     remaining |-> remaining, idx |-> idx, result |-> err,
     flags |-> flags, store |-> store, helpShown |-> helpShown]

\* the same after a parsing pass has run
ReturnParsed(c, args, err, parsed) ==
    [Return(c, args, err) EXCEPT !.flags = parsed.flags, !.store = parsed.store]

\* the help check looking at the first token only
HelpAskedFirstOnly(c, args) ==
    /\ commands[c].helpEnabled
    /\ args # <<>>
    /\ args[1] \in {DashDash(commands[c].helpFlag), Dash(commands[c].helpShort)}

\* the help check: some token is the help flag of c
HelpAsked(c, args) ==
    /\ commands[c].helpEnabled
    /\ \E i \in 1..Len(args) : args[i] \in {DashDash(commands[c].helpFlag),
                                            Dash(commands[c].helpShort)}

\* the argument count check made against the number of parameters of the
\* handler instead of the number of Arg declarations
executeValidatedCountsParameters(c, args, parsed, unset) ==
    IF unset # <<>>
    THEN ReturnParsed(c, args,
                      FlagError(parsed.flags[unset[1]][unset[2]].names[1],
                                [text |-> "required flag not set"], c), parsed)
    ELSE IF /\ ~(commands[c].action.defined /\ commands[c].action.variadic)
            /\ Len(parsed.remaining) > Len(commands[c].action.params)
    THEN ReturnParsed(c, args,
                      ArgumentError(<<>>, [text |-> "too many arguments",
                                           expected |-> Len(commands[c].action.params),
                                           got |-> Len(parsed.remaining)], c), parsed)
    ELSE [ReturnParsed(c, args, Nil, parsed) EXCEPT
             !.pc = "persistentPreRun", !.resolved = c,
             !.remaining = parsed.remaining, !.idx = 1]

\* the argument count check and the call of executeAction
executeValidated(c, args, parsed, unset) ==
    IF unset # <<>>
    THEN ReturnParsed(c, args,
                      FlagError(parsed.flags[unset[1]][unset[2]].names[1],
                                [text |-> "required flag not set"], c), parsed)
    ELSE IF /\ ~(commands[c].action.defined /\ commands[c].action.variadic)
            /\ Len(parsed.remaining) > Len(commands[c].args)
    THEN ReturnParsed(c, args,
                      ArgumentError(<<>>, [text |-> "too many arguments",
                                           expected |-> Len(commands[c].args),
                                           got |-> Len(parsed.remaining)], c), parsed)
    ELSE [ReturnParsed(c, args, Nil, parsed) EXCEPT
             !.pc = "persistentPreRun", !.resolved = c,
             !.remaining = parsed.remaining, !.idx = 1]

\* no subcommand found: all tokens parsed against the effective flag set
executeHere(c, args, allFlags, parsed) ==
    IF parsed.err # Nil
    THEN ReturnParsed(c, args, FlagError(<<>>, parsed.err, c), parsed)
    ELSE executeValidated(c, args, parsed, FirstUnsetRequired(parsed.flags, allFlags))

\* the subcommand entered without the tokens before its name being parsed
executeDelegateDropsBefore(c, args, k, before) ==
    [Return(c, args, Nil) EXCEPT
        !.pc = "execute", !.cur = subcommands[c][args[k]],
        !.argv = SubSeq(args, k + 1, Len(args))]

\* the subcommand given the whole vector again instead of the tokens after
\* its name
executeDelegateKeepsVector(c, args, k, before) ==
    IF before.err # Nil
    THEN ReturnParsed(c, args, FlagError(<<>>, before.err, c), before)
    ELSE [ReturnParsed(c, args, Nil, before) EXCEPT
             !.pc = "execute", !.cur = subcommands[c][args[k]],
             !.argv = args]

\* a subcommand found at token k: the tokens before it are parsed here and the
\* tokens after it go to the subcommand
executeDelegate(c, args, k, before) ==
    IF before.err # Nil
    THEN ReturnParsed(c, args, FlagError(<<>>, before.err, c), before)
    ELSE [ReturnParsed(c, args, Nil, before) EXCEPT
             !.pc = "execute", !.cur = subcommands[c][args[k]],
             !.argv = SubSeq(args, k + 1, Len(args))]

\* the search for a subcommand with the whole vector, not only the tokens
\* before the subcommand, parsed at the command that delegates
executeRouteParsesAll(c, args, k, allFlags) ==
    IF k > 0 /\ args[k] \in DOMAIN subcommands[c]
    THEN executeDelegate(c, args, k, Parse(allFlags, args, flags, store))
    ELSE IF k > 0 /\ HasSubcommands(c)
    THEN Return(c, args, CommandNotFoundError(args[k], c))
    ELSE executeHere(c, args, allFlags, Parse(allFlags, args, flags, store))

\* the search for a subcommand with the tokens before its name parsed against
\* the flag set of the subcommand
executeRouteChildFlags(c, args, k, allFlags) ==
    IF k > 0 /\ args[k] \in DOMAIN subcommands[c]
    THEN executeDelegate(c, args, k,
            IF k > 1
            THEN Parse(getAllFlags(flags, subcommands[c][args[k]]),
                       SubSeq(args, 1, k - 1), flags, store)
            ELSE [err |-> Nil, remaining |-> <<>>, flags |-> flags, store |-> store])
    ELSE IF k > 0 /\ HasSubcommands(c)
    THEN Return(c, args, CommandNotFoundError(args[k], c))
    ELSE executeHere(c, args, allFlags, Parse(allFlags, args, flags, store))

\* the search for a subcommand, k being the first token without a dash; each
\* parsing pass runs once and its result is what the rest of the call uses
executeRoute(c, args, k, allFlags) ==
    IF k > 0 /\ args[k] \in DOMAIN subcommands[c]
    THEN CHOOSE out \in
            {executeDelegate(c, args, k, before) :
                before \in {IF k > 1
                            THEN Parse(allFlags, SubSeq(args, 1, k - 1), flags, store)
                            ELSE [err |-> Nil, remaining |-> <<>>,
                                  flags |-> flags, store |-> store]}} : TRUE
    ELSE IF k > 0 /\ HasSubcommands(c)
    THEN Return(c, args, CommandNotFoundError(args[k], c))
    ELSE CHOOSE out \in
            {executeHere(c, args, allFlags, parsed) :
                parsed \in {Parse(allFlags, args, flags, store)}} : TRUE

\* what one call of execute does up to its return, its recursive call or its
\* call of executeAction
executeOutcome(c, args) ==
    IF HelpAsked(c, args)
    THEN [Return(c, args, Nil) EXCEPT !.helpShown = HelpTarget(c, args)]
    ELSE CHOOSE out \in
            {executeRoute(c, args, FirstNonFlag(args), allFlags) :
                allFlags \in {getAllFlags(flags, c)}} : TRUE

\* the state after one call of execute
executeStep(out) ==
    /\ pc' = out.pc
    /\ cur' = out.cur
    /\ argv' = out.argv
    /\ resolved' = out.resolved
    /\ remaining' = out.remaining
    /\ idx' = out.idx
    /\ result' = out.result
    /\ flags' = out.flags
    /\ store' = out.store
    /\ helpShown' = out.helpShown

\* one call of Command.execute
execute ==
    /\ pc = "execute"
    /\ \E out \in {executeOutcome(cur, argv)} : executeStep(out)
    /\ UNCHANGED <<config, calls, entry, input, ctx>>

(***************************************************************************)
(* Command.executeAction and Command.runPostHooks                          *)
(***************************************************************************)
\* the outcomes of calling the user function in the given slot of command c
Outcomes(slot, c) == {Nil, UserError(slot, c)}

\* the call of a user function given a fresh context.Background() instead of
\* the context of the execution
CallWithBackground(slot, owner, c, args, err) ==
    [hook |-> slot, owner |-> owner, cmd |-> c, args |-> args, err |-> err,
     ctx |-> Background]

\* the record of one call of a user function: the slot, the command the
\* function is declared on, the command, the arguments and the context it is
\* called with, and the error it returns
Call(slot, owner, c, args, err) ==
    [hook |-> slot, owner |-> owner, cmd |-> c, args |-> args, err |-> err,
     ctx |-> ctx]

\* one iteration of the PersistentPreRun loop of executeAction
persistentPreRun ==
    /\ pc = "persistentPreRun"
    /\ LET ancestors == Ancestors(resolved)
           cmd       == ancestors[idx]
           last      == idx >= Len(ancestors)
       IN  IF commands[cmd].persistentPreRun
           THEN \E err \in Outcomes("persistentPreRun", cmd) :
                   /\ calls' = Append(calls, Call("persistentPreRun", cmd, resolved, <<>>, err))
                   /\ IF err # Nil
                      THEN /\ result' = err
                           /\ pc' = "postRun"
                           /\ idx' = idx
                      ELSE /\ result' = result
                           /\ pc' = IF last THEN "preRun" ELSE pc
                           /\ idx' = IF last THEN idx ELSE idx + 1
           ELSE /\ pc' = IF last THEN "preRun" ELSE pc
                /\ idx' = IF last THEN idx ELSE idx + 1
                /\ UNCHANGED <<calls, result>>
    /\ UNCHANGED <<config, flags, store, cur, argv, resolved, remaining,
                   helpShown, entry, input, ctx>>

\* PreRun returning on an error without running the post hooks
preRunReturnsAtOnce ==
    /\ pc = "preRun"
    /\ IF commands[resolved].preRun
       THEN \E err \in {Nil, UserError("preRun", resolved)} :
               /\ calls' = Append(calls, [hook |-> "preRun", owner |-> resolved,
                                          cmd |-> resolved, args |-> <<>>, err |-> err, ctx |-> ctx])
               /\ result' = err
               /\ pc' = IF err # Nil THEN "done" ELSE "action"
       ELSE /\ pc' = "action"
            /\ UNCHANGED <<calls, result>>
    /\ UNCHANGED <<config, flags, store, cur, argv, resolved, remaining, idx,
                   helpShown, entry, input, ctx>>

\* the PreRun step taking the PreRun of the parent when the command has none
preRunInherited ==
    /\ pc = "preRun"
    /\ LET owner == IF commands[resolved].preRun \/ parent[resolved] = None
                    THEN resolved ELSE parent[resolved]
       IN  IF commands[owner].preRun
           THEN \E err \in Outcomes("preRun", owner) :
                   /\ calls' = Append(calls, Call("preRun", owner, resolved, <<>>, err))
                   /\ result' = err
                   /\ pc' = IF err # Nil THEN "postRun" ELSE "action"
           ELSE /\ pc' = "action"
                /\ UNCHANGED <<calls, result>>
    /\ UNCHANGED <<config, flags, store, cur, argv, resolved, remaining, idx,
                   helpShown, entry, input, ctx>>

\* the PreRun step of executeAction
preRun ==
    /\ pc = "preRun"
    /\ IF commands[resolved].preRun
       THEN \E err \in Outcomes("preRun", resolved) :
               /\ calls' = Append(calls, Call("preRun", resolved, resolved, <<>>, err))
               /\ result' = err
               /\ pc' = IF err # Nil THEN "postRun" ELSE "action"
       ELSE /\ pc' = "action"
            /\ UNCHANGED <<calls, result>>
    /\ UNCHANGED <<config, flags, store, cur, argv, resolved, remaining, idx,
                   helpShown, entry, input, ctx>>

\* the action step returning a handler error without running the post hooks
callActionReturnsAtOnce ==
    /\ pc = "action"
    /\ LET bound == BindArguments(resolved, remaining) IN
       IF ~commands[resolved].action.defined
       THEN /\ pc' = "postRun"
            /\ UNCHANGED <<calls, result>>
       ELSE IF bound.panic
       THEN /\ pc' = "done"
            /\ result' = Panic("reflect.MakeSlice: negative len")
            /\ UNCHANGED calls
       ELSE IF bound.err # Nil
       THEN /\ pc' = "postRun"
            /\ result' = bound.err
            /\ UNCHANGED calls
       ELSE \E err \in {Nil, UserError("action", resolved)} :
               /\ calls' = Append(calls, [hook |-> "action", owner |-> resolved,
                                          cmd |-> resolved, args |-> bound.callArgs,
                                          err |-> err, ctx |-> ctx])
               /\ result' = err
               /\ pc' = IF err # Nil THEN "done" ELSE "postRun"
    /\ UNCHANGED <<config, flags, store, cur, argv, resolved, remaining, idx,
                   helpShown, entry, input, ctx>>

\* the action step of executeAction: callAction when the action is set
callAction ==
    /\ pc = "action"
    /\ LET bound == BindArguments(resolved, remaining) IN
       IF ~commands[resolved].action.defined
       THEN /\ pc' = "postRun"
            /\ UNCHANGED <<calls, result>>
       ELSE IF bound.panic
       THEN /\ pc' = "done"
            /\ result' = Panic("reflect.MakeSlice: negative len")
            /\ UNCHANGED calls
       ELSE IF bound.err # Nil
       THEN /\ pc' = "postRun"
            /\ result' = bound.err
            /\ UNCHANGED calls
       ELSE \E err \in Outcomes("action", resolved) :
               /\ calls' = Append(calls, Call("action", resolved, resolved, bound.callArgs, err))
               /\ result' = err
               /\ pc' = "postRun"
    /\ UNCHANGED <<config, flags, store, cur, argv, resolved, remaining, idx,
                   helpShown, entry, input, ctx>>

\* PostRun followed by an unwind that starts at the last command whose
\* PersistentPreRun was reached instead of at c
postRunUnwindsEntered ==
    /\ pc = "postRun"
    /\ IF commands[resolved].postRun
       THEN \E err \in {Nil, UserError("postRun", resolved)} :
               calls' = Append(calls, [hook |-> "postRun", owner |-> resolved,
                                       cmd |-> resolved, args |-> <<>>, err |-> err, ctx |-> ctx])
       ELSE UNCHANGED calls
    /\ pc' = "persistentPostRun"
    /\ cur' = Ancestors(resolved)[idx]
    /\ UNCHANGED <<config, flags, store, argv, resolved, remaining, idx,
                   result, helpShown, entry, input, ctx>>

\* PostRun surfacing its own error when nothing failed before it
postRunSurfacesError ==
    /\ pc = "postRun"
    /\ IF commands[resolved].postRun
       THEN \E err \in {Nil, UserError("postRun", resolved)} :
               /\ calls' = Append(calls, [hook |-> "postRun", owner |-> resolved,
                                          cmd |-> resolved, args |-> <<>>, err |-> err, ctx |-> ctx])
               /\ result' = IF result = Nil THEN err ELSE result
       ELSE UNCHANGED <<calls, result>>
    /\ pc' = "persistentPostRun"
    /\ cur' = resolved
    /\ UNCHANGED <<config, flags, store, argv, resolved, remaining, idx,
                   helpShown, entry, input, ctx>>

\* the PostRun step of runPostHooks; current := c for the loop that follows
postRun ==
    /\ pc = "postRun"
    /\ IF commands[resolved].postRun
       THEN \E err \in Outcomes("postRun", resolved) :
               calls' = Append(calls, Call("postRun", resolved, resolved, <<>>, err))
       ELSE UNCHANGED calls
    /\ pc' = "persistentPostRun"
    /\ cur' = resolved
    /\ UNCHANGED <<config, flags, store, argv, resolved, remaining, idx,
                   result, helpShown, entry, input, ctx>>

\* one iteration of the PersistentPostRun loop of runPostHooks, and the
\* return of executeAction after the last one
persistentPostRun ==
    /\ pc = "persistentPostRun"
    /\ IF commands[cur].persistentPostRun
       THEN \E err \in Outcomes("persistentPostRun", cur) :
               calls' = Append(calls, Call("persistentPostRun", cur, resolved, <<>>, err))
       ELSE UNCHANGED calls
    /\ IF parent[cur] = None
       THEN pc' = "done" /\ cur' = cur
       ELSE pc' = pc /\ cur' = parent[cur]
    /\ UNCHANGED <<config, flags, store, argv, resolved, remaining, idx,
                   result, helpShown, entry, input, ctx>>

(***************************************************************************)
(* Command trees                                                           *)
(***************************************************************************)
Slots == {"persistentPreRun", "preRun", "postRun", "persistentPostRun"}

\* a nil action
NoAction == [defined |-> FALSE, variadic |-> FALSE, params |-> <<>>]

\* func(ctx, cmd, params...) error
Handler(params) == [defined |-> TRUE, variadic |-> FALSE, params |-> params]

\* func(ctx, cmd, params..., rest ...T) error: the last entry of params is T
VariadicHandler(params) == [defined |-> TRUE, variadic |-> TRUE, params |-> params]

\* Command.Arg
Arg(name, required) == [Name |-> name, Required |-> required]

\* Cmd(name) followed by Arg, Action and the hook setters
Cmd(name, args, action, hooks) ==
    [name |-> name, args |-> args, action |-> action,
     persistentPreRun  |-> "persistentPreRun" \in hooks,
     preRun            |-> "preRun" \in hooks,
     postRun           |-> "postRun" \in hooks,
     persistentPostRun |-> "persistentPostRun" \in hooks,
     helpEnabled |-> TRUE, helpFlag |-> s_help, helpShort |-> s_h,
     hidden |-> FALSE]

\* Command.Hidden
Hidden(cmd) == [cmd EXCEPT !.hidden = TRUE]

\* root.AddCommand(db); root.AddCommand(deploy); db.AddCommand(migrate)
TreeParent ==
    [root |-> None, db |-> "root", migrate |-> "db", deploy |-> "root"]

TreeSubcommands ==
    [root    |-> (s_db :> "db") @@ (s_deploy :> "deploy"),
     db      |-> (s_migrate :> "migrate"),
     migrate |-> << >>,
     deploy  |-> << >>]

\* a command that only groups subcommands, or one that also takes an optional
\* argument and has a handler of its own
GroupShapes ==
    { [args |-> <<>>, action |-> NoAction],
      [args |-> <<Arg(s_env, FALSE)>>, action |-> Handler(<<"string">>)] }

\* the variables after the Flag calls: each holds its flag's default
InitialStore ==
    [rootVerbose |-> FALSE, dbVerbose |-> FALSE, migrateVerbose |-> FALSE,
     rootTrace |-> FALSE, dbTrace |-> FALSE, trace |-> FALSE, timeout |-> 30,
     port |-> 3000, tags |-> <<>>, apiKey |-> <<>>, level8 |-> 1,
     level16 |-> 8080, ulevel8 |-> 0, ulevel16 |-> 8080,
     oldPort |-> 3000, newPort |-> 8080]

\* all sequences over S of length at most n
SeqsUpTo(S, n) == UNION {[1..m -> S] : m \in 0..n}

ExecutionIdle ==
    /\ pc = "idle"
    /\ cur = None
    /\ argv = <<>>
    /\ resolved = None
    /\ remaining = <<>>
    /\ idx = 0
    /\ result = Nil
    /\ calls = <<>>
    /\ helpShown = None
    /\ entry = None
    /\ input = <<>>
    /\ ctx = None

(***************************************************************************)
(* Routing and parsing: the tree of the examples, with and without a       *)
(* handler on the grouping commands and a shadowing flag on db             *)
(***************************************************************************)
Tokens ==
    { s_db, s_migrate, s_deploy, s_prod,
      DashDash(s_trace), Dash(s_v), WithValue(DashDash(s_timeout), s_60),
      Dash(s_h) }

Init ==
    /\ parent = TreeParent
    /\ subcommands = TreeSubcommands
    /\ \E rootShape \in GroupShapes, dbShape \in GroupShapes :
          commands =
            [root    |-> Cmd(s_app, rootShape.args, rootShape.action,
                             {"persistentPreRun", "persistentPostRun"}),
             db      |-> Cmd(s_db, dbShape.args, dbShape.action, {}),
             migrate |-> Cmd(s_migrate, <<>>, Handler(<<>>), {}),
             deploy  |-> Cmd(s_deploy, <<Arg(s_env, TRUE), Arg(s_prod, FALSE)>>,
                             Handler(<<"string", "string">>), {"postRun"})]
    /\ \E dbFlags \in { <<>>, <<NewFlag("dbVerbose", s_verbose, s_v, FALSE)>> } :
          flags =
            [root    |-> <<NewFlag("rootVerbose", s_verbose, s_v, FALSE)>>,
             db      |-> dbFlags,
             migrate |-> <<NewFlag("trace", s_trace, <<>>, FALSE)>>,
             deploy  |-> <<NewFlag("timeout", s_timeout, s_t, 30)>>]
    /\ store = InitialStore
    /\ ExecutionIdle

Next ==
    \/ ExecuteWithArgs(SeqsUpTo(Tokens, MaxTokens))
    \/ execute
    \/ persistentPreRun
    \/ preRun
    \/ callAction
    \/ postRun
    \/ persistentPostRun

Spec == Init /\ [][Next]_vars

(***************************************************************************)
(* Lifecycle: the same tree with every combination of hook profiles and    *)
(* of present and absent handlers on the chain root -> db -> migrate       *)
(***************************************************************************)
HookProfiles ==
    { {}, Slots, {"persistentPreRun", "persistentPostRun"}, {"preRun", "postRun"} }

Actions == { NoAction, Handler(<<>>) }

LifeTokens == { s_db, s_migrate, s_deploy }

InitLife ==
    /\ parent = TreeParent
    /\ subcommands = TreeSubcommands
    /\ \E rootHooks \in HookProfiles, dbHooks \in HookProfiles,
          migrateHooks \in HookProfiles, dbAction \in Actions,
          migrateAction \in Actions :
          commands =
            [root    |-> Cmd(s_app, <<>>, NoAction, rootHooks),
             db      |-> Cmd(s_db, <<>>, dbAction, dbHooks),
             migrate |-> Cmd(s_migrate, <<>>, migrateAction, migrateHooks),
             deploy  |-> Cmd(s_deploy, <<>>, Handler(<<>>), {"preRun"})]
    /\ flags = [c \in Commands |-> <<>>]
    /\ store = InitialStore
    /\ ExecutionIdle

NextLife ==
    \/ ExecuteWithArgs(SeqsUpTo(LifeTokens, MaxTokens))
    \/ execute
    \/ persistentPreRun
    \/ preRun
    \/ callAction
    \/ postRun
    \/ persistentPostRun

SpecLife == InitLife /\ [][NextLife]_vars

(***************************************************************************)
(* Flag inheritance: every way of declaring verbose and trace, each at most *)
(* MaxFlags times in all, on the commands of the chain root -> db -> migrate *)
(***************************************************************************)
\* the variable each command binds its own verbose and trace flag to
VerboseVar == [root |-> "rootVerbose", db |-> "dbVerbose", migrate |-> "migrateVerbose"]

TraceVar == [root |-> "rootTrace", db |-> "dbTrace", migrate |-> "trace"]

\* the Flag calls a command of the chain may make
FlagChoices(c) ==
    { NewFlag(VerboseVar[c], s_verbose, s_v, FALSE),
      NewFlag(TraceVar[c], s_trace, <<>>, FALSE) }

FlagVectors ==
    { <<>>, <<Dash(s_v)>>, <<DashDash(s_trace)>>,
      <<s_db, Dash(s_v)>>, <<s_db, s_migrate>>,
      <<s_db, s_migrate, Dash(s_v)>>, <<s_db, s_migrate, DashDash(s_trace)>>,
      <<Dash(s_v), s_db>>, <<s_db, Dash(s_v), s_migrate>>,
      <<DashDash(s_trace), s_db, s_migrate>>,
      <<Dash(s_v), s_db, s_migrate, DashDash(s_trace)>> }

InitFlags ==
    /\ parent = TreeParent
    /\ subcommands = TreeSubcommands
    /\ commands =
         [root    |-> Cmd(s_app, <<>>, NoAction, {}),
          db      |-> Cmd(s_db, <<>>, NoAction, {}),
          migrate |-> Cmd(s_migrate, <<>>, Handler(<<>>), {}),
          deploy  |-> Cmd(s_deploy, <<>>, Handler(<<>>), {})]
    /\ \E rootFlags \in SeqsUpTo(FlagChoices("root"), MaxFlags),
          dbFlags \in SeqsUpTo(FlagChoices("db"), MaxFlags),
          migrateFlags \in SeqsUpTo(FlagChoices("migrate"), MaxFlags) :
          flags =
            [root    |-> rootFlags,
             db      |-> dbFlags,
             migrate |-> migrateFlags,
             deploy  |-> <<NewFlag("timeout", s_timeout, s_t, 30)>>]
    /\ store = InitialStore
    /\ ExecutionIdle

NextFlags ==
    \/ ExecuteWithArgs(FlagVectors)
    \/ execute
    \/ persistentPreRun
    \/ preRun
    \/ callAction
    \/ postRun
    \/ persistentPostRun

SpecFlags == InitFlags /\ [][NextFlags]_vars

(***************************************************************************)
(* Flag syntax: the forms of a boolean flag, a value flag with and without *)
(* its value, and a repeated list flag                                     *)
(***************************************************************************)
SyntaxTokens ==
    { Dash(s_v), WithValue(Dash(s_v), s_true),
      DashDash(s_verbose), WithValue(DashDash(s_verbose), s_true),
      WithValue(DashDash(s_verbose), s_false),
      DashDash(s_port), WithValue(DashDash(s_port), s_8080), s_8080,
      WithValue(DashDash(s_tag), s_v1), WithValue(DashDash(s_tag), s_v2),
      WithValue(Dash(s_t), s_v3),
      s_deploy }

InitSyntax ==
    /\ parent = TreeParent
    /\ subcommands = TreeSubcommands
    /\ commands =
         [root    |-> Cmd(s_app, <<>>, NoAction, {}),
          db      |-> Cmd(s_db, <<>>, NoAction, {}),
          migrate |-> Cmd(s_migrate, <<>>, Handler(<<>>), {}),
          deploy  |-> Cmd(s_deploy, <<>>, Handler(<<>>), {})]
    /\ flags =
         [root    |-> <<NewFlag("rootVerbose", s_verbose, s_v, FALSE),
                        NewFlag("port", s_port, s_p, 3000)>>,
          db      |-> <<>>,
          migrate |-> <<>>,
          deploy  |-> <<NewFlag("tags", s_tag, s_t, <<>>)>>]
    /\ store = InitialStore
    /\ ExecutionIdle

NextSyntax ==
    \/ ExecuteWithArgs(SeqsUpTo(SyntaxTokens, MaxTokens))
    \/ execute
    \/ persistentPreRun
    \/ preRun
    \/ callAction
    \/ postRun
    \/ persistentPostRun

SpecSyntax == InitSyntax /\ [][NextSyntax]_vars

(***************************************************************************)
(* Required flags: a required flag on the root, inherited by every         *)
(* command, and one on deploy, in every combination                        *)
(***************************************************************************)
RequiredTokens ==
    { s_deploy, s_db, Dash(s_v),
      WithValue(DashDash(s_apikey), s_secret),
      WithValue(DashDash(s_timeout), s_60) }

InitRequired ==
    /\ parent = TreeParent
    /\ subcommands = TreeSubcommands
    /\ commands =
         [root    |-> Cmd(s_app, <<>>, Handler(<<>>), {"persistentPreRun"}),
          db      |-> Cmd(s_db, <<>>, NoAction, {}),
          migrate |-> Cmd(s_migrate, <<>>, Handler(<<>>), {}),
          deploy  |-> Cmd(s_deploy, <<>>, Handler(<<>>), {"preRun"})]
    /\ \E rootFlags \in { <<NewFlag("rootVerbose", s_verbose, s_v, FALSE)>>,
                          FlagRequired(<<NewFlag("rootVerbose", s_verbose, s_v, FALSE)>>,
                                       "apiKey", s_apikey, <<>>, <<>>) },
          deployFlags \in { <<NewFlag("timeout", s_timeout, s_t, 30)>>,
                            FlagRequired(<<>>, "timeout", s_timeout, s_t, 30) } :
          flags =
            [root    |-> rootFlags,
             db      |-> <<>>,
             migrate |-> <<>>,
             deploy  |-> deployFlags]
    /\ store = InitialStore
    /\ ExecutionIdle

NextRequired ==
    \/ ExecuteWithArgs(SeqsUpTo(RequiredTokens, MaxTokens))
    \/ execute
    \/ persistentPreRun
    \/ preRun
    \/ callAction
    \/ postRun
    \/ persistentPostRun

SpecRequired == InitRequired /\ [][NextRequired]_vars

\* the vectors of the later calls
RepeatVectors ==
    { <<>>, <<s_deploy>>, <<WithValue(DashDash(s_apikey), s_secret)>>,
      <<s_deploy, WithValue(DashDash(s_timeout), s_60)>> }

\* the same tree executed again and again
NextRepeat ==
    \/ ExecuteWithArgs(SeqsUpTo(RequiredTokens, MaxTokens))
    \/ ExecuteWithArgsAgain(RepeatVectors)
    \/ execute
    \/ persistentPreRun
    \/ preRun
    \/ callAction
    \/ postRun
    \/ persistentPostRun

SpecRepeat == InitRequired /\ [][NextRepeat]_vars

(***************************************************************************)
(* Handlers with positional parameters                                     *)
(***************************************************************************)
\* the handlers of deploy: up to two fixed parameters of type string or int,
\* alone or followed by a variadic string parameter
HandlerShapes ==
    { Handler(<<>>), Handler(<<"string">>), Handler(<<"int">>),
      Handler(<<"string", "string">>), Handler(<<"string", "int">>),
      VariadicHandler(<<"string">>), VariadicHandler(<<"string", "string">>),
      VariadicHandler(<<"int", "string">>),
      VariadicHandler(<<"string", "string", "string">>) }

\* the Arg declarations of deploy
ArgLists ==
    {<<>>} \cup {<<Arg(s_env, r)>> : r \in BOOLEAN}
           \cup {<<Arg(s_env, r), Arg(s_target, q)>> : r, q \in BOOLEAN}
           \cup {<<Arg(s_env, TRUE), Arg(s_target, TRUE), Arg(s_rest, FALSE)>>}

ArgTokens == {s_a, s_b, s_60, DashDash(s_force)}

\* the vectors of the documentation: a b c d, and
\* deploy api-server --force --env=prod given to the command itself
ExampleVectors ==
    { <<s_a, s_b, s_c, s_d>>,
      <<s_deploy, s_apiserver, DashDash(s_force),
        WithValue(DashDash(s_env), s_prod)>> }

InitArgs ==
    /\ parent = TreeParent
    /\ subcommands = TreeSubcommands
    /\ \E action \in HandlerShapes, args \in ArgLists :
          commands =
             [root    |-> Cmd(s_app, <<>>, NoAction, {"persistentPreRun"}),
              db      |-> Cmd(s_db, <<>>, NoAction, {}),
              migrate |-> Cmd(s_migrate, <<>>, Handler(<<>>), {}),
              deploy  |-> Cmd(s_deploy, args, action, {"postRun"})]
    /\ flags = [c \in Commands |-> <<>>]
    /\ store = InitialStore
    /\ ExecutionIdle

NextArgs ==
    \/ ExecuteWithArgs(SeqsUpTo(ArgTokens, MaxTokens) \cup ExampleVectors)
    \/ execute
    \/ persistentPreRun
    \/ preRun
    \/ callAction
    \/ postRun
    \/ persistentPostRun

SpecArgs == InitArgs /\ [][NextArgs]_vars

(***************************************************************************)
(* A flag name declared twice on one command                               *)
(***************************************************************************)
DuplicateTokens ==
    { WithValue(DashDash(s_port), s_60), WithValue(Dash(s_p), s_60),
      s_db, s_deploy }

\* c.Flag(&oldPort, "port", short, 3000, ...).Flag(&newPort, "port", short,
\* 8080, ...) on one command of the tree
InitDuplicate ==
    /\ parent = TreeParent
    /\ subcommands = TreeSubcommands
    /\ commands =
         [root    |-> Cmd(s_app, <<>>, NoAction, {}),
          db      |-> Cmd(s_db, <<>>, NoAction, {}),
          migrate |-> Cmd(s_migrate, <<>>, Handler(<<>>), {}),
          deploy  |-> Cmd(s_deploy, <<>>, Handler(<<>>), {})]
    /\ \E d \in Commands, short \in {<<>>, s_p} :
          flags = [c \in Commands |->
                     IF c = d
                     THEN <<NewFlag("oldPort", s_port, short, 3000),
                            NewFlag("newPort", s_port, short, 8080)>>
                     ELSE <<>>]
    /\ store = InitialStore
    /\ ExecutionIdle

NextDuplicate ==
    \/ ExecuteWithArgs(SeqsUpTo(DuplicateTokens, MaxTokens))
    \/ execute
    \/ persistentPreRun
    \/ preRun
    \/ callAction
    \/ postRun
    \/ persistentPostRun

SpecDuplicate == InitDuplicate /\ [][NextDuplicate]_vars

(***************************************************************************)
(* Building a tree with AddCommand                                         *)
(***************************************************************************)
\* c.AddCommand(cmd): cmd.parent = c; c.subcommands[cmd.name] = cmd
AddCommand(c, cmd) ==
    /\ pc = "idle"
    /\ parent' = [parent EXCEPT ![cmd] = c]
    /\ subcommands' =
          [subcommands EXCEPT ![c] = (commands[cmd].name :> cmd) @@ subcommands[c]]
    /\ UNCHANGED <<commands, flags, store, pc, cur, argv, resolved, remaining,
                   idx, result, calls, helpShown, entry, input, ctx>>

\* Root("app"), Cmd("db"), Cmd("migrate") and a fourth command, named deploy
\* or db as well, before any AddCommand
InitBuild ==
    /\ parent = [c \in Commands |-> None]
    /\ subcommands = [c \in Commands |-> << >>]
    /\ \E name \in {s_deploy, s_db} :
          commands =
             [root    |-> Cmd(s_app, <<>>, NoAction, {}),
              db      |-> Cmd(s_db, <<>>, NoAction, {}),
              migrate |-> Cmd(s_migrate, <<>>, Handler(<<>>), {}),
              deploy  |-> Cmd(name, <<>>, Handler(<<>>), {})]
    /\ flags = [c \in Commands |-> <<>>]
    /\ store = InitialStore
    /\ ExecutionIdle

\* the commands made with Cmd are added to the root or to one another
NextBuild ==
    \E cmd \in Commands \ {"root"} : \E c \in Commands \ {cmd} : AddCommand(c, cmd)

SpecBuild == InitBuild /\ [][NextBuild]_vars

(***************************************************************************)
(* Declaring flags on a command                                            *)
(***************************************************************************)
\* the command the flags are declared on, the variables they are bound to,
\* and the names, short names and defaults they are declared with
DeclaringCommands == {"deploy"}
DeclaredPtrs      == {"oldPort", "newPort"}
DeclaredNames     == {s_port, s_p}
DeclaredShorts    == {<<>>, s_p}
DeclaredDefaults  == {3000, 8080}

\* c.Flag(ptr, name, shorthand, defaultValue, usage)
DeclareFlag(c, ptr, name, shorthand, defaultValue) ==
    /\ pc = "idle"
    /\ Len(flags[c]) < MaxFlags
    /\ flags' = [flags EXCEPT ![c] = Append(@, NewFlag(ptr, name, shorthand, defaultValue))]
    /\ store' = [store EXCEPT ![ptr] = defaultValue]
    /\ UNCHANGED <<parent, subcommands, commands, pc, cur, argv, resolved,
                   remaining, idx, result, calls, helpShown, entry, input, ctx>>

\* c.FlagRequired(ptr, name, shorthand, defaultValue, usage)
DeclareFlagRequired(c, ptr, name, shorthand, defaultValue) ==
    /\ pc = "idle"
    /\ Len(flags[c]) < MaxFlags
    /\ flags' = [flags EXCEPT ![c] = FlagRequired(@, ptr, name, shorthand, defaultValue)]
    /\ store' = [store EXCEPT ![ptr] = defaultValue]
    /\ UNCHANGED <<parent, subcommands, commands, pc, cur, argv, resolved,
                   remaining, idx, result, calls, helpShown, entry, input, ctx>>

\* c.FlagHidden(ptr, name, shorthand, defaultValue, usage)
DeclareFlagHidden(c, ptr, name, shorthand, defaultValue) ==
    /\ pc = "idle"
    /\ Len(flags[c]) < MaxFlags
    /\ flags' = [flags EXCEPT ![c] = FlagHidden(@, ptr, name, shorthand, defaultValue)]
    /\ store' = [store EXCEPT ![ptr] = defaultValue]
    /\ UNCHANGED <<parent, subcommands, commands, pc, cur, argv, resolved,
                   remaining, idx, result, calls, helpShown, entry, input, ctx>>

\* the tree before any flag is declared
InitDeclare ==
    /\ parent = TreeParent
    /\ subcommands = TreeSubcommands
    /\ commands =
         [root    |-> Cmd(s_app, <<>>, NoAction, {}),
          db      |-> Cmd(s_db, <<>>, NoAction, {}),
          migrate |-> Cmd(s_migrate, <<>>, Handler(<<>>), {}),
          deploy  |-> Cmd(s_deploy, <<>>, Handler(<<>>), {})]
    /\ flags = [c \in Commands |-> <<>>]
    /\ store = InitialStore
    /\ ExecutionIdle

NextDeclare ==
    \E c \in DeclaringCommands, ptr \in DeclaredPtrs, name \in DeclaredNames,
       shorthand \in DeclaredShorts, defaultValue \in DeclaredDefaults :
        \/ DeclareFlag(c, ptr, name, shorthand, defaultValue)
        \/ DeclareFlagRequired(c, ptr, name, shorthand, defaultValue)
        \/ DeclareFlagHidden(c, ptr, name, shorthand, defaultValue)

SpecDeclare == InitDeclare /\ [][NextDeclare]_vars

(***************************************************************************)
(* Every tree AddCommand can build without a cycle                         *)
(***************************************************************************)
\* the walk up the parent links p from c ends within n steps
RECURSIVE Climb(_, _, _)
Climb(p, c, n) ==
    IF c = None THEN TRUE
    ELSE IF n = 0 THEN FALSE
    ELSE Climb(p, p[c], n - 1)

\* the parent links after each command but the root was added to one other
\* command, the arrangements with a cycle left out
AcyclicParents ==
    {p \in [Commands -> Commands \cup {None}] :
        /\ p["root"] = None
        /\ \A c \in Commands \ {"root"} : p[c] \in Commands \ {c}
        /\ \A c \in Commands : Climb(p, c, Cardinality(Commands))}

\* the name each command was created with
NameOf == [root |-> s_app, db |-> s_db, migrate |-> s_migrate, deploy |-> s_deploy]

\* the child maps that go with the parent links p
ChildMaps(p) ==
    [c \in Commands |->
        [name \in {NameOf[d] : d \in {e \in Commands : p[e] = c}} |->
            CHOOSE d \in Commands : p[d] = c /\ NameOf[d] = name]]

TreeTokens == {s_db, s_migrate, s_deploy, DashDash(s_verbose)}

InitTrees ==
    /\ \E p \in AcyclicParents :
          /\ parent = p
          /\ subcommands = ChildMaps(p)
    /\ commands =
         [root    |-> Cmd(s_app, <<>>, NoAction, {"persistentPreRun", "persistentPostRun"}),
          db      |-> Cmd(s_db, <<>>, NoAction, {"persistentPostRun"}),
          migrate |-> Cmd(s_migrate, <<>>, Handler(<<>>), {"preRun"}),
          deploy  |-> Cmd(s_deploy, <<>>, Handler(<<>>), {"postRun"})]
    /\ flags = [c \in Commands |->
                  IF c = "root" THEN <<NewFlag("rootVerbose", s_verbose, s_v, FALSE)>>
                  ELSE <<>>]
    /\ store = InitialStore
    /\ ExecutionIdle

NextTrees ==
    \/ ExecuteWithArgs(SeqsUpTo(TreeTokens, MaxTokens))
    \/ execute
    \/ persistentPreRun
    \/ preRun
    \/ callAction
    \/ postRun
    \/ persistentPostRun

\* Execute runs on the caller's goroutine: once called, each of its steps is
\* taken; the caller need not call it
SpecTrees ==
    /\ InitTrees /\ [][NextTrees]_vars
    /\ WF_vars(execute)
    /\ WF_vars(persistentPreRun)
    /\ WF_vars(preRun)
    /\ WF_vars(callAction)
    /\ WF_vars(postRun)
    /\ WF_vars(persistentPostRun)

(***************************************************************************)
(* Shell completion                                                        *)
(***************************************************************************)
\* the shells of AddCompletion, in the order it registers them, and the name
\* of the helper command of each
Shells == <<"bash", "zsh", "fish", "powershell">>

HelperName(shell) ==
    CASE shell = "bash" -> s_bashcomplete
      [] shell = "zsh"  -> s_zshcomplete
      [] shell = "fish" -> s_fishcomplete
      [] shell = "powershell" -> s_powershellcomplete

\* the Command object Register creates for the shell on the command
Helper(shell, c) == "__" \o shell \o "complete@" \o c

Helpers == {Helper(Shells[i], c) : i \in 1..Len(Shells), c \in Commands}

\* the commands Register(c) reaches: c and, recursively, its subcommands that
\* are not hidden
RECURSIVE Registered(_)
Registered(c) ==
    {c} \cup UNION {Registered(subcommands[c][name]) :
                      name \in {n \in DOMAIN subcommands[c] :
                                  ~commands[subcommands[c][n]].hidden}}

\* the child map of c with the helper of every shell added
WithHelpers(c) ==
    [name \in DOMAIN subcommands[c] \cup {HelperName(Shells[i]) : i \in 1..Len(Shells)} |->
        IF \E i \in 1..Len(Shells) : name = HelperName(Shells[i])
        THEN Helper(CHOOSE sh \in {Shells[i] : i \in 1..Len(Shells)} : HelperName(sh) = name, c)
        ELSE subcommands[c][name]]

\* AddCompletion(root): every shell's Register adds its hidden helper command
\* to the root and to every command reached through subcommands not hidden
AddCompletion ==
    /\ pc = "idle"
    /\ s_bashcomplete \notin DOMAIN subcommands["root"]
    /\ parent' = [c \in DOMAIN parent |->
                    IF \E t \in Registered("root"), i \in 1..Len(Shells) :
                          c = Helper(Shells[i], t)
                    THEN CHOOSE t \in Registered("root") :
                            \E i \in 1..Len(Shells) : c = Helper(Shells[i], t)
                    ELSE parent[c]]
    /\ subcommands' = [c \in DOMAIN subcommands |->
                         IF c \in Registered("root") THEN WithHelpers(c)
                         ELSE subcommands[c]]
    /\ UNCHANGED <<commands, flags, store, pc, cur, argv, resolved, remaining,
                   idx, result, calls, helpShown, entry, input, ctx>>

CompletionTokens == {s_deploy, s_db, s_migrate, s_prod, DashDash(s_verbose)}

\* the tree of the completion example: deploy takes a required argument, db
\* has the subcommand migrate, and one command may be hidden; the helper
\* commands are not yet part of the tree
InitCompletion ==
    /\ parent = [c \in Commands \cup Helpers |->
                   IF c \in Commands THEN TreeParent[c] ELSE None]
    /\ subcommands = [c \in Commands \cup Helpers |->
                        IF c \in Commands THEN TreeSubcommands[c] ELSE << >>]
    /\ \E dbHidden \in BOOLEAN :
          commands = [c \in Commands \cup Helpers |->
             CASE c = "root"    -> Cmd(s_app, <<>>, NoAction, {})
               [] c = "db"      -> IF dbHidden THEN Hidden(Cmd(s_db, <<>>, NoAction, {}))
                                   ELSE Cmd(s_db, <<>>, NoAction, {})
               [] c = "migrate" -> Cmd(s_migrate, <<>>, Handler(<<>>), {})
               [] c = "deploy"  -> Cmd(s_deploy, <<Arg(s_env, TRUE)>>,
                                       Handler(<<"string">>), {})
               [] OTHER         ->
                    Hidden(Cmd(HelperName(CHOOSE sh \in {Shells[i] : i \in 1..Len(Shells)} :
                                             \E t \in Commands : c = Helper(sh, t)),
                               <<>>, Handler(<<>>), {}))]
    /\ flags = [c \in Commands \cup Helpers |->
                  IF c = "root" THEN <<NewFlag("rootVerbose", s_verbose, s_v, FALSE)>>
                  ELSE <<>>]
    /\ store = InitialStore
    /\ ExecutionIdle

NextCompletion ==
    \/ AddCompletion
    \/ ExecuteWithArgs(SeqsUpTo(CompletionTokens, MaxTokens))
    \/ execute
    \/ persistentPreRun
    \/ preRun
    \/ callAction
    \/ postRun
    \/ persistentPostRun

SpecCompletion == InitCompletion /\ [][NextCompletion]_vars

(***************************************************************************)
(* A flag of a narrow integer type                                         *)
(***************************************************************************)
NarrowVars == {"level8", "level16", "ulevel8", "ulevel16"}

NumberTexts ==
    { s_200, s_127, s_128, s_m128, s_m129, s_255,
      s_256, s_32767, s_32768, s_65535, s_65536, s_m1 }

NumberTokens == {WithValue(DashDash(s_level), t) : t \in NumberTexts}

InitWidth ==
    /\ parent = TreeParent
    /\ subcommands = TreeSubcommands
    /\ commands =
         [root    |-> Cmd(s_app, <<>>, NoAction, {}),
          db      |-> Cmd(s_db, <<>>, NoAction, {}),
          migrate |-> Cmd(s_migrate, <<>>, Handler(<<>>), {}),
          deploy  |-> Cmd(s_deploy, <<>>, Handler(<<>>), {})]
    /\ \E v \in NarrowVars :
          flags = [root    |-> <<NewFlag(v, s_level, s_l, InitialStore[v])>>,
                   db      |-> <<>>,
                   migrate |-> <<>>,
                   deploy  |-> <<>>]
    /\ store = InitialStore
    /\ ExecutionIdle

NextWidth ==
    \/ ExecuteWithArgs(SeqsUpTo(NumberTokens, MaxNumbers))
    \/ execute
    \/ persistentPreRun
    \/ preRun
    \/ callAction
    \/ postRun
    \/ persistentPostRun

SpecWidth == InitWidth /\ [][NextWidth]_vars

(***************************************************************************)
(* A list flag on a tree that is executed again and again                  *)
(***************************************************************************)
ListVectors ==
    { <<>>, <<WithValue(DashDash(s_tag), s_v1)>>,
      <<s_deploy, WithValue(DashDash(s_tag), s_v1)>>,
      <<s_deploy, WithValue(DashDash(s_tag), s_v1), WithValue(Dash(s_t), s_v2)>> }

NextRepeatList ==
    \/ ExecuteWithArgs(ListVectors)
    \/ (Len(store["tags"]) < MaxTags /\ ExecuteWithArgsAgain(ListVectors))
    \/ execute
    \/ persistentPreRun
    \/ preRun
    \/ callAction
    \/ postRun
    \/ persistentPostRun

SpecRepeatList == InitSyntax /\ [][NextRepeatList]_vars

(***************************************************************************)
(* Flags of the root given before and after a subcommand name              *)
(***************************************************************************)
FrameTokens ==
    { WithValue(DashDash(s_tag), s_v1), WithValue(Dash(s_t), s_v2),
      DashDash(s_verbose), s_db, s_deploy }

\* the root declares verbose and the list flag tag, which every command
\* inherits; hooks are set along the chain
InitFrame ==
    /\ parent = TreeParent
    /\ subcommands = TreeSubcommands
    /\ commands =
         [root    |-> Cmd(s_app, <<>>, NoAction, {"persistentPreRun", "persistentPostRun"}),
          db      |-> Cmd(s_db, <<>>, NoAction, {"preRun"}),
          migrate |-> Cmd(s_migrate, <<>>, Handler(<<>>), {}),
          deploy  |-> Cmd(s_deploy, <<>>, Handler(<<>>), {"preRun", "postRun"})]
    /\ flags =
         [root    |-> <<NewFlag("rootVerbose", s_verbose, s_v, FALSE),
                        NewFlag("tags", s_tag, s_t, <<>>)>>,
          db      |-> <<>>,
          migrate |-> <<>>,
          deploy  |-> <<>>]
    /\ store = InitialStore
    /\ ExecutionIdle

NextFrame ==
    \/ ExecuteWithArgs(SeqsUpTo(FrameTokens, MaxTokens))
    \/ execute
    \/ persistentPreRun
    \/ preRun
    \/ callAction
    \/ postRun
    \/ persistentPostRun

SpecFrame == InitFrame /\ [][NextFrame]_vars

(***************************************************************************)
(* The help flag                                                           *)
(***************************************************************************)
\* the help settings of a command: the default, DisableHelp(), or
\* SetHelpFlag("usage", "u")
HelpSettings ==
    { [helpEnabled |-> TRUE,  helpFlag |-> s_help,  helpShort |-> s_h],
      [helpEnabled |-> FALSE, helpFlag |-> s_help,  helpShort |-> s_h],
      [helpEnabled |-> TRUE,  helpFlag |-> s_usage, helpShort |-> s_u] }

\* the command with the help settings applied
WithHelp(cmd, h) ==
    [cmd EXCEPT !.helpEnabled = h.helpEnabled, !.helpFlag = h.helpFlag,
                !.helpShort = h.helpShort]

HelpTokens ==
    { Dash(s_h), DashDash(s_help), DashDash(s_usage), DashDash(s_verbose),
      s_db, s_migrate, s_prod }

InitHelp ==
    /\ parent = TreeParent
    /\ subcommands = TreeSubcommands
    /\ \E rootHelp \in HelpSettings, dbHelp \in HelpSettings :
          commands =
             [root    |-> WithHelp(Cmd(s_app, <<>>, NoAction, {"persistentPreRun"}), rootHelp),
              db      |-> WithHelp(Cmd(s_db, <<>>, NoAction, {}), dbHelp),
              migrate |-> Cmd(s_migrate, <<Arg(s_env, FALSE)>>, Handler(<<"string">>), {"preRun"}),
              deploy  |-> Cmd(s_deploy, <<>>, Handler(<<>>), {})]
    /\ flags =
         [root    |-> <<NewFlag("rootVerbose", s_verbose, s_v, FALSE)>>,
          db      |-> <<>>,
          migrate |-> <<>>,
          deploy  |-> <<>>]
    /\ store = InitialStore
    /\ ExecutionIdle

NextHelp ==
    \/ ExecuteWithArgs(SeqsUpTo(HelpTokens, MaxTokens))
    \/ execute
    \/ persistentPreRun
    \/ preRun
    \/ callAction
    \/ postRun
    \/ persistentPostRun

SpecHelp == InitHelp /\ [][NextHelp]_vars

(***************************************************************************)
(* Execution with a context of the caller                                  *)
(***************************************************************************)
\* context.Background(), a context with a cancel function, one with a value
Contexts == {Background, "WithCancel", "WithValue"}

ContextVectors ==
    { <<>>, <<s_db>>, <<s_db, s_migrate>>, <<s_deploy>>, <<s_deploy, s_prod>>,
      <<DashDash(s_verbose), s_db, s_migrate>>, <<s_prod>> }

\* every command of the tree has all four hooks
InitContext ==
    /\ parent = TreeParent
    /\ subcommands = TreeSubcommands
    /\ commands =
         [root    |-> Cmd(s_app, <<>>, NoAction, Slots),
          db      |-> Cmd(s_db, <<>>, NoAction, Slots),
          migrate |-> Cmd(s_migrate, <<>>, Handler(<<>>), Slots),
          deploy  |-> Cmd(s_deploy, <<Arg(s_env, FALSE)>>, Handler(<<"string">>), Slots)]
    /\ flags =
         [root    |-> <<NewFlag("rootVerbose", s_verbose, s_v, FALSE)>>,
          db      |-> <<>>,
          migrate |-> <<>>,
          deploy  |-> <<>>]
    /\ store = InitialStore
    /\ ExecutionIdle

NextContext ==
    \/ ExecuteContext(Contexts, ContextVectors)
    \/ execute
    \/ persistentPreRun
    \/ preRun
    \/ callAction
    \/ postRun
    \/ persistentPostRun

SpecContext == InitContext /\ [][NextContext]_vars

(***************************************************************************)
(* Properties of the lifecycle                                             *)
(***************************************************************************)
Reverse(s) == [i \in 1..Len(s) |-> s[Len(s) + 1 - i]]

\* the chain of c following the parent links, from c up to the root
RECURSIVE LeafToRoot(_)
LeafToRoot(c) == IF c = None THEN <<>> ELSE <<c>> \o LeafToRoot(parent[c])

RootToLeaf(c) == Reverse(LeafToRoot(c))

\* which function was called, as <<slot, declaring command>>
Proj(cs) == [i \in 1..Len(cs) |-> <<cs[i].hook, cs[i].owner>>]

\* the commands of the chain that define the slot, each paired with the slot
RECURSIVE DefinedOn(_, _)
DefinedOn(slot, chain) ==
    IF chain = <<>> THEN <<>>
    ELSE (IF commands[Head(chain)][slot] THEN << <<slot, Head(chain)>> >> ELSE <<>>)
         \o DefinedOn(slot, Tail(chain))

ExpectedPreRun(c)  == DefinedOn("preRun", <<c>>)
ExpectedAction(c)  == IF commands[c].action.defined THEN << <<"action", c>> >> ELSE <<>>
ExpectedUnwind(c)  == DefinedOn("postRun", <<c>>) \o DefinedOn("persistentPostRun", LeafToRoot(c))

Failed(slot)  == {i \in 1..Len(calls) : calls[i].hook = slot /\ calls[i].err # Nil}
Called(slot)  == {i \in 1..Len(calls) : calls[i].hook = slot}
Returned      == pc = "done" /\ resolved # None /\ result.kind # "panic"

\* C1: when the resolved command executes and nothing fails, the calls are
\* exactly PersistentPreRun root to leaf, PreRun, the handler, PostRun and
\* PersistentPostRun leaf to root, every defined slot once and the undefined
\* slots skipped.
C1_LifecycleOrder ==
    (Returned /\ result = Nil) =>
        Proj(calls) = DefinedOn("persistentPreRun", RootToLeaf(resolved))
                      \o ExpectedPreRun(resolved) \o ExpectedAction(resolved)
                      \o ExpectedUnwind(resolved)

C1_Witness ==
    /\ pc = "done" /\ result = Nil /\ resolved = "migrate"
    /\ \A c \in {"root", "db", "migrate"} : \A slot \in Slots : commands[c][slot]
    /\ commands["migrate"].action.defined
    /\ Len(calls) = 9

Range(s) == {s[i] : i \in DOMAIN s}

IsFlagToken(t) == Len(t) > 0 /\ t[1] = "-"

IsPositional(t) == ~IsFlagToken(t)

\* the number of tokens before the first flag token
RECURSIVE LeadingNames(_)
LeadingNames(s) ==
    IF s = <<>> \/ IsFlagToken(Head(s)) THEN 0 ELSE 1 + LeadingNames(Tail(s))

\* the command reached from c by following the names as child names, None
\* when some name is not a child
RECURSIVE ChainTarget(_, _)
ChainTarget(c, names) ==
    IF names = <<>> THEN c
    ELSE IF Head(names) \in DOMAIN subcommands[c]
    THEN ChainTarget(subcommands[c][Head(names)], Tail(names))
    ELSE None

\* the flag declared under the name on the command nearest to c on its chain
\* to the root, <<>> when the chain declares none
RECURSIVE NearestDeclaring(_, _)
NearestDeclaring(c, name) ==
    IF c = None THEN <<>>
    ELSE IF \E i \in 1..Len(flags[c]) : name \in Range(flags[c][i].names)
    THEN <<c, CHOOSE i \in 1..Len(flags[c]) :
                  /\ name \in Range(flags[c][i].names)
                  /\ \A j \in 1..(i - 1) : name \notin Range(flags[c][j].names)>>
    ELSE NearestDeclaring(parent[c], name)

\* the name a flag token carries: the dashes and the =value cut off
TokenName(t) ==
    LET body == IF Len(t) > 1 /\ t[2] = "-" THEN SubSeq(t, 3, Len(t))
                ELSE SubSeq(t, 2, Len(t))
        eqs  == {i \in 1..Len(body) : body[i] = "="}
    IN  IF eqs = {} THEN body
        ELSE SubSeq(body, 1, (CHOOSE i \in eqs : \A j \in eqs : i <= j) - 1)

\* the tokens of the model and the values they give their flags
TokenValue(t) ==
    IF t = WithValue(DashDash(s_timeout), s_60) THEN 60 ELSE TRUE

\* no token asks for help
NoHelpToken(s) ==
    \A i \in 1..Len(s) : s[i] \notin {Dash(s_h), DashDash(s_help)}

\* every flag token names a flag visible from c
AllVisible(c, s) ==
    \A i \in 1..Len(s) :
        IsFlagToken(s[i]) => NearestDeclaring(c, TokenName(s[i])) # <<>>

\* every flag token has set the flag visible from c under its name, and the
\* bound variable holds the value of the last token naming that flag
AllApplied(c, s) ==
    \A i \in 1..Len(s) :
        IsFlagToken(s[i]) =>
            LET ref == NearestDeclaring(c, TokenName(s[i]))
            IN  /\ flags[ref[1]][ref[2]].set
                /\ (\A j \in (i + 1)..Len(s) :
                        IsFlagToken(s[j]) => NearestDeclaring(c, TokenName(s[j])) # ref)
                   => store[flags[ref[1]][ref[2]].ptr] = TokenValue(s[i])

\* the vector is a chain of child names of the entry command followed by
\* flag tokens only, none of them the help flag
ChainCase ==
    /\ entry # None
    /\ LeadingNames(input) >= 1
    /\ \A i \in (LeadingNames(input) + 1)..Len(input) : IsFlagToken(input[i])
    /\ NoHelpToken(input)
    /\ ChainTarget(entry, SubSeq(input, 1, LeadingNames(input))) # None

ChainEnd == ChainTarget(entry, SubSeq(input, 1, LeadingNames(input)))

\* the handler of c takes no required argument
RunsWithoutArguments(c) ==
    /\ commands[c].action.defined
    /\ \A i \in 1..Len(commands[c].args) : ~commands[c].args[i].Required

\* C7: deepest match wins.  For a vector that is a chain of child names
\* followed by flags, no handler but the one of the deepest named command is
\* ever called, at most once; routing never fails; and when the flags are all
\* visible from that command, that command is the one executed, every flag
\* is set through the nearest declaration and the handler is called once
\* unless a hook before it failed.
C7_DeepestMatchWins ==
    ChainCase =>
        /\ \A i \in Called("action") : calls[i].owner = ChainEnd /\ calls[i].cmd = ChainEnd
        /\ Cardinality(Called("action")) <= 1
        /\ pc = "done" =>
             /\ result.kind # "CommandNotFoundError"
             /\ AllVisible(ChainEnd, input) =>
                  /\ resolved = ChainEnd
                  /\ result.kind # "FlagError"
                  /\ AllApplied(ChainEnd, input)
                  /\ (RunsWithoutArguments(ChainEnd) /\ Failed("persistentPreRun") = {})
                     => Cardinality(Called("action")) = 1

C7_Witness ==
    /\ pc = "done" /\ result = Nil
    /\ entry = "root" /\ input = <<s_db, s_migrate, DashDash(s_trace)>>
    /\ commands["root"].action.defined /\ commands["db"].action.defined
    /\ store["trace"] = TRUE
    /\ \E i \in Called("action") : calls[i].owner = "migrate"

\* the number of tokens before the first one that does not begin with '-'
RECURSIVE LeadingFlags(_)
LeadingFlags(s) ==
    IF s = <<>> \/ IsPositional(Head(s)) THEN 0 ELSE 1 + LeadingFlags(Tail(s))

\* routing is at a command with children and the first token that is not a
\* flag names none of them
UnknownCommandCase ==
    /\ pc = "execute"
    /\ DOMAIN subcommands[cur] # {}
    /\ NoHelpToken(argv)
    /\ LeadingFlags(argv) < Len(argv)
    /\ argv[LeadingFlags(argv) + 1] \notin DOMAIN subcommands[cur]

\* C8: during routing at a command with at least one child, the first token
\* not beginning with '-' that names no child ends the execution with a
\* CommandNotFoundError naming the token, whether or not the command declares
\* a handler or arguments; no flag is parsed and no hook or handler runs.
C8_UnknownCommand ==
    [][UnknownCommandCase =>
          /\ pc' = "done"
          /\ result' = CommandNotFoundError(argv[LeadingFlags(argv) + 1], cur)
          /\ resolved' = None
          /\ UNCHANGED <<flags, store, calls>>]_vars

C8_Witness ==
    /\ pc = "done"
    /\ entry = "root" /\ input = <<s_prod, Dash(s_v)>>
    /\ commands["root"].action.defined /\ Len(commands["root"].args) > 0
    /\ result = CommandNotFoundError(s_prod, "root")
    /\ store["rootVerbose"] = FALSE
    /\ calls = <<>>

DeclaredOn(c) == {flags[c][i].names[1] : i \in 1..Len(flags[c])}

\* the primary names declared anywhere on the chain from c to the root
RECURSIVE DeclaredOnChain(_)
DeclaredOnChain(c) ==
    IF c = None THEN {} ELSE DeclaredOn(c) \cup DeclaredOnChain(parent[c])

\* the command nearest to c, on its chain to the root, that declares a flag
\* of the primary name
RECURSIVE NearestCommand(_, _)
NearestCommand(c, name) ==
    IF name \in DeclaredOn(c) THEN c ELSE NearestCommand(parent[c], name)

\* the positions of the effective flag set of c holding the primary name
EntriesOf(c, name) ==
    {i \in 1..Len(getAllFlags(flags, c)) :
        flags[getAllFlags(flags, c)[i][1]][getAllFlags(flags, c)[i][2]].names[1] = name}

\* C10: for every command the effective flag set has no two bindings of the
\* same primary name, and for every primary name declared on the chain from
\* the root to the command its one entry is a binding declared on the
\* command nearest to it: own over parent over grandparent.
C10_EffectiveFlagSet ==
    \A c \in Commands :
        /\ \A i \in 1..Len(getAllFlags(flags, c)) :
              Cardinality(EntriesOf(c, flags[getAllFlags(flags, c)[i][1]]
                                            [getAllFlags(flags, c)[i][2]].names[1])) = 1
        /\ \A name \in DeclaredOnChain(c) :
              /\ Cardinality(EntriesOf(c, name)) = 1
              /\ \A i \in EntriesOf(c, name) :
                    getAllFlags(flags, c)[i][1] = NearestCommand(c, name)

C10_Witness ==
    /\ pc = "done" /\ result = Nil
    /\ entry = "root" /\ input = <<s_db, s_migrate, Dash(s_v)>>
    /\ s_verbose \in DeclaredOn("root") /\ s_verbose \in DeclaredOn("db")
    /\ s_verbose \notin DeclaredOn("migrate")
    /\ \E i \in EntriesOf("migrate", s_verbose) :
          getAllFlags(flags, "migrate")[i][1] = "db"
    /\ store["dbVerbose"] = TRUE /\ store["rootVerbose"] = FALSE

\* the commands above c, nearest first
StrictAncestors(c) == LeafToRoot(parent[c])

\* the commands from c up to, and without, its ancestor a
RECURSIVE PathBelow(_, _)
PathBelow(c, a) == IF c = a \/ c = None THEN {} ELSE {c} \cup PathBelow(parent[c], a)

\* the first binding command c declares under the primary name
FirstDeclared(c, name) ==
    <<c, CHOOSE i \in 1..Len(flags[c]) :
            /\ flags[c][i].names[1] = name
            /\ \A j \in 1..(i - 1) : flags[c][j].names[1] # name>>

\* the bindings of the ancestors of c that no command from c up to the
\* ancestor declares again
Inherited(c) ==
    {FirstDeclared(StrictAncestors(c)[k], name) :
        <<k, name>> \in {kn \in (1..Len(StrictAncestors(c))) \X {s_verbose, s_trace} :
            /\ kn[2] \in DeclaredOn(StrictAncestors(c)[kn[1]])
            /\ \A d \in PathBelow(c, StrictAncestors(c)[kn[1]]) : kn[2] \notin DeclaredOn(d)}}

\* the variable a command's declaration of the flag name is bound to
DeclaredVar(c, name) ==
    IF name \in {s_verbose, s_v} THEN VerboseVar[c] ELSE TraceVar[c]

OnlyOwnBinding ==
    \A c \in Commands : \A name \in DeclaredOn(c) :
        \A i \in EntriesOf(c, name) : getAllFlags(flags, c)[i][1] = c

\* the step of execute at a command leaves alone every binding of an
\* ancestor, and its variable, whose name the command declares itself
AncestorUntouched ==
    pc = "execute" =>
        \A k \in 1..Len(StrictAncestors(cur)) :
            \A i \in 1..Len(flags[StrictAncestors(cur)[k]]) :
                flags[StrictAncestors(cur)[k]][i].names[1] \in DeclaredOn(cur) =>
                    /\ flags'[StrictAncestors(cur)[k]][i] = flags[StrictAncestors(cur)[k]][i]
                    /\ store'[flags[StrictAncestors(cur)[k]][i].ptr]
                         = store[flags[StrictAncestors(cur)[k]][i].ptr]

\* C12: for a flag name declared on an ancestor and on a descendant the
\* descendant's effective flag set holds the descendant's binding only, and
\* the tokens given after the descendant's name leave the ancestor's
\* variable and its set marker as they were.
C12_Shadowing == [](OnlyOwnBinding) /\ [][AncestorUntouched]_vars

C12_Witness ==
    /\ pc = "done" /\ result = Nil
    /\ entry = "root" /\ input = <<s_db, Dash(s_v)>>
    /\ s_verbose \in DeclaredOn("root") /\ s_verbose \in DeclaredOn("db")
    /\ store["dbVerbose"] = TRUE /\ store["rootVerbose"] = FALSE
    /\ \A i \in 1..Len(flags["root"]) : ~flags["root"][i].set

(***************************************************************************)
(* Properties of the flags a level accepts                                 *)
(***************************************************************************)
\* routing at c finds a child name as the first token that is not a flag
FindsChild(c, args) ==
    /\ LeadingFlags(args) < Len(args)
    /\ args[LeadingFlags(args) + 1] \in DOMAIN subcommands[c]

\* the tokens the step of execute at c parses: the ones before the child
\* name, or all of them when there is none
ParsedHere(c, args) ==
    IF FindsChild(c, args) THEN SubSeq(args, 1, LeadingFlags(args)) ELSE args

\* the positions of the flag tokens naming no flag visible from c
Unknown(c, s) ==
    {i \in 1..Len(s) : IsFlagToken(s[i]) /\ NearestDeclaring(c, TokenName(s[i])) = <<>>}

\* the first of them
FirstUnknown(c, s) == CHOOSE i \in Unknown(c, s) : \A j \in Unknown(c, s) : i <= j

\* the commands with the same parent as c
Siblings(c) == {d \in Commands \ {c} : parent[c] # None /\ parent[d] = parent[c]}

\* the names of the flags declared on c
NamesOn(c) == UNION {Range(flags[c][i].names) : i \in 1..Len(flags[c])}

\* a step of execute that parses the tokens of the level
ParsingStep ==
    /\ pc = "execute"
    /\ NoHelpToken(argv)
    /\ ~UnknownCommandCase

\* the step ends the execution with the unknown-flag error for the token
RefusesUnknown(t) ==
    /\ pc' = "done"
    /\ result' = FlagError(<<>>, [text |-> "unknown flag", name |-> TokenName(t)], cur)
    /\ resolved' = None
    /\ calls' = calls

\* no binding of a sibling is in the effective flag set of a command
NoSiblingBinding ==
    \A b \in Commands : \A a \in Siblings(b) :
        \A i \in 1..Len(getAllFlags(flags, b)) : getAllFlags(flags, b)[i][1] # a

\* C13: a flag declared only on a command is absent from the effective flag
\* set of its sibling, and its token given to the sibling ends the execution
\* with an unknown-flag error without any hook or handler of the sibling
\* being called.
C13_SiblingIsolation ==
    /\ [](NoSiblingBinding)
    /\ [][(/\ ParsingStep
           /\ Unknown(cur, ParsedHere(cur, argv)) # {}
           /\ \E a \in Siblings(cur) :
                 TokenName(ParsedHere(cur, argv)[FirstUnknown(cur, ParsedHere(cur, argv))])
                   \in NamesOn(a))
          => RefusesUnknown(ParsedHere(cur, argv)[FirstUnknown(cur, ParsedHere(cur, argv))])]_vars

C13_Witness ==
    /\ pc = "done"
    /\ entry = "root" /\ input = <<s_db, WithValue(DashDash(s_timeout), s_60)>>
    /\ commands["db"].action.defined
    /\ result = FlagError(<<>>, [text |-> "unknown flag", name |-> s_timeout], "db")
    /\ store["timeout"] = 30
    /\ calls = <<>>

\* the command whose level parses token i of the vector
LevelOf(i) == ChainTarget(entry, SelectSeq(SubSeq(input, 1, i - 1), IsPositional))

\* the command the names of the vector lead to
NamedCommand == ChainTarget(entry, SelectSeq(input, IsPositional))

\* the vector is child names leading to a command, with flag tokens anywhere
\* among them, each naming a flag that is visible at its own level as the
\* same binding the named command sees
FreelyPlaced ==
    /\ entry # None
    /\ NoHelpToken(input)
    /\ NamedCommand # None
    /\ \A i \in 1..Len(input) :
          IsFlagToken(input[i]) =>
              /\ NearestDeclaring(LevelOf(i), TokenName(input[i])) # <<>>
              /\ NearestDeclaring(LevelOf(i), TokenName(input[i]))
                   = NearestDeclaring(NamedCommand, TokenName(input[i]))

\* the bindings the flag tokens of the vector name, seen from command c
Named(c) ==
    {NearestDeclaring(c, TokenName(input[i])) : i \in {j \in 1..Len(input) : IsFlagToken(input[j])}}

\* C14: a token of a flag declared on an ancestor and not shadowed on the
\* path may stand before or after the subcommand names: the command
\* executed, the bindings set and the values of all variables depend only
\* on the names and on which flags the vector holds, not on their places.
C14_PositionIndependence ==
    (pc = "done" /\ FreelyPlaced) =>
        /\ resolved = NamedCommand
        /\ \A c \in Commands : \A i \in 1..Len(flags[c]) :
              flags[c][i].set <=> <<c, i>> \in Named(NamedCommand)
        /\ \A v \in Variables :
              store[v] = IF \E r \in Named(NamedCommand) : flags[r[1]][r[2]].ptr = v
                         THEN TRUE ELSE InitialStore[v]

C14_Witness ==
    /\ pc = "done" /\ result = Nil
    /\ entry = "root" /\ input = <<Dash(s_v), s_db>>
    /\ s_verbose \in DeclaredOn("root") /\ s_verbose \notin DeclaredOn("db")
    /\ resolved = "db"
    /\ store["rootVerbose"] = TRUE

\* the child the step of execute at the current command delegates to
ChildFound == subcommands[cur][argv[LeadingFlags(argv) + 1]]

\* C15: the tokens before a subcommand name are parsed against the
\* effective flag set of the command at that level: a flag declared only
\* on the child and given before the child's name ends the execution with
\* an unknown-flag FlagError, the child's bindings and variables stay as they
\* were, and no hook or handler of the child is called.
C15_ParentLevelOnly ==
    [][(/\ ParsingStep
        /\ FindsChild(cur, argv)
        /\ Unknown(cur, ParsedHere(cur, argv)) # {}
        /\ TokenName(ParsedHere(cur, argv)[FirstUnknown(cur, ParsedHere(cur, argv))])
             \in NamesOn(ChildFound))
       => /\ RefusesUnknown(ParsedHere(cur, argv)[FirstUnknown(cur, ParsedHere(cur, argv))])
          /\ flags'[ChildFound] = flags[ChildFound]
          /\ \A i \in 1..Len(flags[ChildFound]) :
                store'[flags[ChildFound][i].ptr] = store[flags[ChildFound][i].ptr]]_vars

C15_Witness ==
    /\ pc = "done"
    /\ entry = "root" /\ input = <<s_db, DashDash(s_trace), s_migrate>>
    /\ result = FlagError(<<>>, [text |-> "unknown flag", name |-> s_trace], "db")
    /\ store["trace"] = FALSE
    /\ calls = <<>>

(***************************************************************************)
(* Properties of the flag syntax                                           *)
(***************************************************************************)
\* the forms of the boolean flag verbose that mean true
VerboseTrue ==
    { Dash(s_v), WithValue(Dash(s_v), s_true),
      DashDash(s_verbose), WithValue(DashDash(s_verbose), s_true) }

VerboseFalse == { WithValue(DashDash(s_verbose), s_false) }

\* the positions of the vector holding a token of the set
Places(S) == {i \in 1..Len(input) : input[i] \in S}

\* the last of them
LastPlace(S) == CHOOSE i \in Places(S) : \A j \in Places(S) : j <= i

\* C16: for the boolean binding verbose with the alias v, each of -v,
\* -v=true, --verbose and --verbose=true leaves the variable true and the
\* binding marked as set; --verbose=false leaves the variable false.  With
\* several of them in one vector the last decides.
C16_BooleanForms ==
    (resolved # None /\ Places(VerboseTrue \cup VerboseFalse) # {}) =>
        /\ flags["root"][1].set
        /\ store["rootVerbose"] =
             (input[LastPlace(VerboseTrue \cup VerboseFalse)] \in VerboseTrue)

C16_Witness ==
    /\ pc = "done" /\ result = Nil
    /\ input = <<WithValue(Dash(s_v), s_true)>>
    /\ store["rootVerbose"] = TRUE /\ flags["root"][1].set

\* the positions of the tokens that name a visible flag that is not boolean
\* and carry no '='
Valueless(c, s) ==
    {i \in 1..Len(s) :
        /\ IsFlagToken(s[i])
        /\ "=" \notin Range(s[i])
        /\ NearestDeclaring(c, TokenName(s[i])) # <<>>
        /\ VarType[flags[NearestDeclaring(c, TokenName(s[i]))[1]]
                        [NearestDeclaring(c, TokenName(s[i]))[2]].ptr] # "bool"}

\* the execute step has such a token among the tokens of its level
ValuelessCase ==
    /\ pc = "execute"
    /\ NoHelpToken(argv)
    /\ Valueless(cur, ParsedHere(cur, argv)) # {}

\* the bindings named by such a token and by no token before it keep their
\* variable and their set marker
ValuelessUnchanged ==
    \A i \in Valueless(cur, ParsedHere(cur, argv)) :
        (\A j \in 1..(i - 1) :
            IsFlagToken(argv[j]) =>
                NearestDeclaring(cur, TokenName(argv[j])) # NearestDeclaring(cur, TokenName(argv[i])))
        => /\ flags'[NearestDeclaring(cur, TokenName(argv[i]))[1]]
                    [NearestDeclaring(cur, TokenName(argv[i]))[2]]
                = flags[NearestDeclaring(cur, TokenName(argv[i]))[1]]
                       [NearestDeclaring(cur, TokenName(argv[i]))[2]]
           /\ store'[flags[NearestDeclaring(cur, TokenName(argv[i]))[1]]
                          [NearestDeclaring(cur, TokenName(argv[i]))[2]].ptr]
                = store[flags[NearestDeclaring(cur, TokenName(argv[i]))[1]]
                             [NearestDeclaring(cur, TokenName(argv[i]))[2]].ptr]

TokenText(t) ==
    SubSeq(t, (CHOOSE i \in 1..Len(t) : t[i] = "=" /\ \A j \in 1..(i - 1) : t[j] # "=") + 1,
           Len(t))

\* the values of the tokens of the list flag tag, alias t, in the order of
\* the vector
RECURSIVE TagValues(_)
TagValues(s) ==
    IF s = <<>> THEN <<>>
    ELSE (IF IsFlagToken(Head(s)) /\ TokenName(Head(s)) \in {s_tag, s_t}
          THEN <<TokenText(Head(s))>> ELSE <<>>) \o TagValues(Tail(s))

\* C18: the occurrences of a string-list flag, by long name or by alias,
\* each append one element in command-line order: against the empty
\* default the variable ends as the list of the values given.
C18_ListAccumulation ==
    (resolved # None) => store["tags"] = TagValues(input)

C18_Witness ==
    /\ pc = "done" /\ result = Nil
    /\ entry = "deploy"
    /\ input = <<WithValue(DashDash(s_tag), s_v1), WithValue(DashDash(s_tag), s_v2),
                 WithValue(Dash(s_t), s_v3)>>
    /\ store["tags"] = <<s_v1, s_v2, s_v3>>

(***************************************************************************)
(* Properties of required flags                                            *)
(***************************************************************************)
\* the bindings of the effective flag set of c: for every primary name
\* declared on its chain, the first one the nearest declaring command has
EffectiveBindings(c) ==
    {FirstDeclared(NearestCommand(c, name), name) : name \in DeclaredOnChain(c)}

\* the binding is named by a flag token of the current vector: one given to
\* the command executing, or one given to a level above before its name
SuppliedNow(r) ==
    \/ \E i \in 1..Len(argv) :
          IsFlagToken(argv[i]) /\ NearestDeclaring(cur, TokenName(argv[i])) = r
    \/ \E i \in 1..(Len(input) - Len(argv)) :
          IsFlagToken(input[i]) /\ NearestDeclaring(LevelOf(i), TokenName(input[i])) = r

\* the required bindings of the executing command no token of the vector names
MissingRequired ==
    {r \in EffectiveBindings(cur) : flags[r[1]][r[2]].required /\ ~SuppliedNow(r)}

\* the execute step at the command that is to run: no child named, every
\* flag token known, no more positional tokens than arguments declared
ResolvingStep ==
    /\ ParsingStep
    /\ ~FindsChild(cur, argv)
    /\ Unknown(cur, argv) = {}
    /\ Len(SelectSeq(argv, IsPositional)) <= Len(commands[cur].args)

\* the step returns the missing-required-flag error naming one of them
RefusesMissing ==
    /\ pc' = "done"
    /\ result'.kind = "FlagError"
    /\ result'.Msg = [text |-> "required flag not set"]
    /\ result'.Cmd = cur
    /\ \E r \in MissingRequired : result'.Flag = flags[r[1]][r[2]].names[1]
    /\ resolved' = None
    /\ calls' = calls

\* C19: when a required binding of the resolved command's effective flag
\* set, its own or an inherited one, is named by no token of the vector,
\* Execute returns a FlagError whose Flag is that binding's primary name and
\* no hook or handler runs; when every required flag is given, before or
\* after the subcommand name, the execution goes on to the hooks.
C19_RequiredFlags ==
    [][ResolvingStep =>
          IF MissingRequired # {}
          THEN RefusesMissing
          ELSE pc' = "persistentPreRun" /\ resolved' = cur /\ result' = Nil]_vars

C19_Witness ==
    /\ pc = "done"
    /\ entry = "root" /\ input = <<s_deploy, WithValue(DashDash(s_timeout), s_60)>>
    /\ flags["root"][2].required /\ flags["deploy"][1].required
    /\ result = FlagError(s_apikey, [text |-> "required flag not set"], "deploy")
    /\ calls = <<>>

\* C20: the check considers the tokens of the current execution only: a
\* required flag given in an earlier call on the same tree and absent from
\* the vector of a later call makes the later call fail with the
\* missing-required-flag error.
C20_MarkerDoesNotPersist ==
    [][(/\ ResolvingStep
        /\ \E r \in MissingRequired : flags[r[1]][r[2]].set)
       => RefusesMissing]_vars

(***************************************************************************)
(* Properties of repeated executions                                       *)
(***************************************************************************)
\* C21: in every execution a string-list flag starts at its configured
\* default and accumulates that execution's occurrences only: after each
\* execution the variable is the default followed by the values given in
\* that execution's vector.
C21_ListStartsAtDefault ==
    (pc = "done" /\ resolved # None) =>
        store["tags"] = flags["deploy"][1].defValue \o TagValues(input)


(***************************************************************************)
(* Properties of the integer widths                                        *)
(***************************************************************************)
\* the number each value text of the model writes
NumberOf(text) ==
    CASE text = s_200 -> 200     [] text = s_127 -> 127
      [] text = s_128 -> 128     [] text = s_m128 -> -128
      [] text = s_m129 -> -129   [] text = s_255 -> 255
      [] text = s_256 -> 256     [] text = s_32767 -> 32767
      [] text = s_32768 -> 32768 [] text = s_65535 -> 65535
      [] text = s_65536 -> 65536 [] text = s_m1 -> -1

\* the least and the greatest number of the type of each narrow variable
Least(v) ==
    CASE v = "level8" -> -128 [] v = "level16" -> -32768
      [] v = "ulevel8" -> 0   [] v = "ulevel16" -> 0

Greatest(v) ==
    CASE v = "level8" -> 127  [] v = "level16" -> 32767
      [] v = "ulevel8" -> 255 [] v = "ulevel16" -> 65535

\* the variable the flag level is bound to
LevelVar == flags["root"][1].ptr

\* the number the i-th token of the vector gives
Given(i) == NumberOf(TokenText(input[i]))

\* the places of the vector whose number is outside the declared type
OutOfRange ==
    {i \in 1..Len(input) :
        Given(i) < Least(LevelVar) \/ Given(i) > Greatest(LevelVar)}

\* C22: integer conversion enforces the declared width.  A token whose
\* number is outside the type of the binding (200 for int8) ends Execute with
\* the invalid-value FlagError for that token, and the variable keeps the value
\* it had before that token, never a truncated or wrapped one; every number
\* inside the type, the boundary values 127, 255, 32767 and 65535 included, is
\* accepted and stored exactly.
C22_DeclaredWidth ==
    (pc \notin {"idle", "execute"}) =>
        IF OutOfRange = {}
        THEN /\ result.kind # "FlagError"
             /\ store[LevelVar] = IF input = <<>> THEN InitialStore[LevelVar]
                                  ELSE Given(Len(input))
        ELSE LET k == CHOOSE i \in OutOfRange : \A j \in OutOfRange : i <= j
             IN  /\ pc = "done"
                 /\ result.kind = "FlagError"
                 /\ result.Msg.text = "invalid value"
                 /\ result.Msg.value = TokenText(input[k])
                 /\ calls = <<>>
                 /\ store[LevelVar] = IF k = 1 THEN InitialStore[LevelVar]
                                      ELSE Given(k - 1)

\* C22 witness: an int8 binding given 127 and then 200 has failed and holds 127
C22_Witness ==
    /\ pc = "done"
    /\ LevelVar = "level8"
    /\ input = <<WithValue(DashDash(s_level), s_127),
                 WithValue(DashDash(s_level), s_200)>>
    /\ result.kind = "FlagError"
    /\ store["level8"] = 127


(***************************************************************************)
(* Properties of the binding of positional arguments                       *)
(***************************************************************************)
\* the parameter types of the handler of the command to run, the variadic
\* one included, and the Arg declarations of that command
Params == commands[resolved].action.params
Decls == commands[resolved].args

\* the texts of the model that are decimal numbers, and the value of a text
\* as a parameter of the given type
NumberWords == {s_60}
ValueAs(text, typ) == IF typ = "int" THEN 60 ELSE text
ZeroOf(typ) == IF typ = "int" THEN 0 ELSE <<>>

\* position i (counted from 1) has no token and a required declaration
MissingAt(i) ==
    i > Len(remaining) /\ i <= Len(Decls) /\ Decls[i].Required

\* position i has a token that is not of the type of the parameter
UnconvertibleAt(i) ==
    i <= Len(remaining) /\ Params[i] = "int" /\ remaining[i] \notin NumberWords

\* the first n positions at which binding fails
FailingAmong(n) == {i \in 1..n : MissingAt(i) \/ UnconvertibleAt(i)}

\* what the handler is given at position i
ExpectedArgument(i) ==
    IF i <= Len(remaining) THEN ValueAs(remaining[i], Params[i])
    ELSE ZeroOf(Params[i])

\* the step of callAction for a handler that is set
BindingStep == pc = "action" /\ pc' # "action" /\ commands[resolved].action.defined

\* the step has called the handler and recorded the call
HandlerCalled ==
    /\ Len(calls') = Len(calls) + 1
    /\ SubSeq(calls', 1, Len(calls)) = calls
    /\ calls'[Len(calls')].hook = "action"
    /\ calls'[Len(calls')].cmd = resolved

\* C23: for each fixed parameter position of a handler without a variadic
\* parameter: a positional token at the position is converted to the type of
\* the parameter and passed; with no token there and a required declaration
\* at the position, the result is the ArgumentError naming that declaration
\* and the handler is not called; with no token and an optional or no
\* declaration the handler is given the zero value of the type.
C23_FixedParameters ==
    [][(BindingStep /\ ~commands[resolved].action.variadic) =>
          IF FailingAmong(Len(Params)) = {}
          THEN /\ HandlerCalled
               /\ Len(calls'[Len(calls')].args) = Len(Params)
               /\ \A i \in 1..Len(Params) :
                     calls'[Len(calls')].args[i] = ExpectedArgument(i)
          ELSE LET first == CHOOSE i \in FailingAmong(Len(Params)) :
                               \A j \in FailingAmong(Len(Params)) : i <= j
               IN  /\ calls' = calls
                   /\ result'.kind = "ArgumentError"
                   /\ result'.Cmd = resolved
                   /\ MissingAt(first) =>
                         /\ result'.Arg = Decls[first].Name
                         /\ result'.Msg.text = "required argument missing"]_vars

\* C23 witness: a handler (string, string) with the second declaration
\* required, given one token, has returned the error naming that declaration
C23_Witness ==
    /\ pc = "postRun"
    /\ resolved = "deploy"
    /\ commands["deploy"].action = Handler(<<"string", "string">>)
    /\ commands["deploy"].args = <<Arg(s_env, FALSE), Arg(s_target, TRUE)>>
    /\ remaining = <<s_a>>
    /\ result = ArgumentError(s_target, [text |-> "required argument missing"], "deploy")
    /\ \A i \in 1..Len(calls) : calls[i].hook # "action"


\* the number of fixed parameters of a variadic handler
FixedCount == Len(Params) - 1

\* the step of callAction for a variadic handler
VariadicStep == BindingStep /\ commands[resolved].action.variadic

\* the arguments of the call the step has recorded
PassedArguments == calls'[Len(calls')].args

\* no command with a variadic handler has refused its tokens as too many
NeverTooMany ==
    (result.kind = "ArgumentError" /\ result.Msg.text = "too many arguments") =>
        ~commands[result.Cmd].action.variadic

\* C24: variadic completeness.  A handler with n fixed parameters and a
\* variadic one, given m >= n positional tokens, receives tokens 0..n-1 in
\* order as its fixed parameters and tokens n..m-1 in order as the variadic
\* parameter (a, b, c, d bind a, b and [c, d]), and no number of tokens is
\* refused as too many.
C24_VariadicCompleteness ==
    /\ []NeverTooMany
    /\ [][(VariadicStep /\ Len(remaining) >= FixedCount
                        /\ FailingAmong(FixedCount) = {}) =>
             /\ HandlerCalled
             /\ Len(PassedArguments) = FixedCount + 1
             /\ \A i \in 1..FixedCount :
                   PassedArguments[i] = ValueAs(remaining[i], Params[i])
             /\ PassedArguments[FixedCount + 1] =
                   SubSeq(remaining, FixedCount + 1, Len(remaining))]_vars

\* C24 witness: two fixed string parameters and a variadic one, given
\* a, b, c, d, have been bound to a, b and [c, d]
C24_Witness ==
    /\ pc = "postRun"
    /\ resolved = "deploy"
    /\ commands["deploy"].action = VariadicHandler(<<"string", "string", "string">>)
    /\ remaining = <<s_a, s_b, s_c, s_d>>
    /\ calls # <<>>
    /\ calls[Len(calls)].hook = "action"
    /\ calls[Len(calls)].args = <<s_a, s_b, <<s_c, s_d>>>>


\* C25: a variadic handler never fails or crashes for want of tokens.  For
\* every number m of positional tokens and n of fixed parameters, m < n
\* included when the missing fixed parameters are optional or undeclared,
\* binding completes: the handler is called and its variadic argument is the
\* tokens at index n and beyond, the empty list when m <= n.
C25_VariadicNeverFails ==
    [][(VariadicStep /\ FailingAmong(FixedCount) = {}) =>
          /\ HandlerCalled
          /\ result'.kind # "panic"
          /\ PassedArguments[Len(PassedArguments)] =
                IF Len(remaining) <= FixedCount THEN <<>>
                ELSE SubSeq(remaining, FixedCount + 1, Len(remaining))]_vars

\* the tokens of a vector are all positional
AllPositional(s) == \A i \in 1..Len(s) : ~IsFlagToken(s[i])

\* a call of execute on a command without subcommands and without a variadic
\* handler, with more positional tokens than the command has declarations
TooManyCase ==
    /\ pc = "execute"
    /\ DOMAIN subcommands[cur] = {}
    /\ AllPositional(argv)
    /\ ~commands[cur].action.variadic
    /\ Len(argv) > Len(commands[cur].args)

\* C26: when the handler is not variadic and more positional tokens remain
\* than the command declares parameters, Execute fails with the
\* too-many-arguments ArgumentError that reports the expected and the actual
\* count, and no hook and no handler runs.
C26_TooManyArguments ==
    [][TooManyCase =>
          /\ pc' = "done"
          /\ result' = ArgumentError(<<>>, [text |-> "too many arguments",
                                            expected |-> Len(commands[cur].args),
                                            got |-> Len(argv)], cur)
          /\ calls' = <<>>]_vars

\* C26 witness: deploy with one declaration and a handler of two parameters
\* has refused two tokens, expecting 1 and getting 2, with no call made
C26_Witness ==
    /\ pc = "done"
    /\ cur = "deploy"
    /\ Len(commands["deploy"].args) = 1
    /\ commands["deploy"].action = Handler(<<"string", "string">>)
    /\ input = <<s_a, s_b>>
    /\ result.kind = "ArgumentError"
    /\ result.Msg = [text |-> "too many arguments", expected |-> 1, got |-> 2]
    /\ calls = <<>>


\* the number of positional tokens at the head of a vector
RECURSIVE PositionalHead(_)
PositionalHead(s) ==
    IF s = <<>> \/ IsFlagToken(Head(s)) THEN 0 ELSE 1 + PositionalHead(Tail(s))

\* a call of execute on a command without subcommands whose variadic handler
\* is given its fixed positional tokens and then a token that begins with '-'
DashAfterFixedCase ==
    /\ pc = "execute"
    /\ DOMAIN subcommands[cur] = {}
    /\ commands[cur].action.variadic
    /\ NoHelpToken(argv)
    /\ PositionalHead(argv) >= Len(commands[cur].action.params) - 1
    /\ PositionalHead(argv) < Len(argv)

\* C27: for a variadic handler the tokens beginning with '-' that follow the
\* fixed positional tokens are collected into the variadic argument and are
\* not parsed as flags (deploy api-server --force --env=prod binds deploy,
\* api-server and [--force, --env=prod]): the call of execute goes on to the
\* lifecycle with every token of the vector left for the handler.
C27_DashTokensCollected ==
    [][DashAfterFixedCase =>
          /\ pc' = "persistentPreRun"
          /\ remaining' = argv
          /\ result'.kind # "FlagError"]_vars


(***************************************************************************)
(* Properties of a flag name added twice                                   *)
(***************************************************************************)
\* the command on which the name port has been added twice
Redeclaring == CHOOSE d \in Commands : Len(flags[d]) = 2

\* the vector has a token of the flag port or of its alias p
PortGiven ==
    \E i \in 1..Len(input) :
        IsFlagToken(input[i]) /\ TokenName(input[i]) \in {s_port, s_p}

\* C28: adding a flag of the same primary name again on the same command
\* replaces the earlier binding.  After an execution that was given the flag,
\* lookup by the name finds the binding added last, the effective flag set
\* holds that binding and not the earlier one, the binding added last is the
\* one marked as set, and the token has written the variable passed in the
\* last Add and left the variable of the first Add alone.
C28_LastWriteWins ==
    (pc = "done" /\ resolved # None /\ PortGiven) =>
        /\ GetFlag(flags, FlagRefs(flags, Redeclaring), s_port) = <<Redeclaring, 2>>
        /\ <<Redeclaring, 2>> \in Range(getAllFlags(flags, Redeclaring))
        /\ <<Redeclaring, 1>> \notin Range(getAllFlags(flags, Redeclaring))
        /\ flags[Redeclaring][2].set
        /\ store["newPort"] = 60
        /\ store["oldPort"] = 3000


(***************************************************************************)
(* Properties of the command tree                                          *)
(***************************************************************************)
\* C29: after any sequence of AddCommand calls the tree invariant holds: the
\* root has no parent, every command with a parent p is the entry of p's
\* child map under its own name, and no child map lists a command whose
\* parent is another command.
C29_TreeInvariant ==
    /\ parent["root"] = None
    /\ \A c \in Commands :
          parent[c] # None =>
             /\ commands[c].name \in DOMAIN subcommands[parent[c]]
             /\ subcommands[parent[c]][commands[c].name] = c
    /\ \A p \in Commands :
          \A name \in DOMAIN subcommands[p] : parent[subcommands[p][name]] = p


(***************************************************************************)
(* Properties of the order of validation and lifecycle                     *)
(***************************************************************************)
\* the error reports a failed validation: a required flag that is not set, a
\* required positional argument that is missing, a positional argument that
\* does not convert, or too many arguments
ValidationError(err) ==
    \/ /\ err.kind = "FlagError"
       /\ err.Msg.text = "required flag not set"
    \/ /\ err.kind = "ArgumentError"
       /\ err.Msg.text \in {"required argument missing", "conversion",
                            "too many arguments"}

\* C30: validation precedes the lifecycle.  When Execute returns the error of
\* a missing required flag, a missing required positional argument, a
\* positional conversion failure or too many arguments, no PersistentPreRun,
\* PreRun, PostRun or PersistentPostRun has run.
C30_ValidationPrecedesLifecycle ==
    (pc = "done" /\ ValidationError(result)) =>
        \A i \in 1..Len(calls) : calls[i].hook \notin Slots


(***************************************************************************)
(* Properties of the writes to the flag storage                            *)
(***************************************************************************)
\* the lifecycle has started: the call of execute has handed over to
\* executeAction
InLifecycle == pc \in {"persistentPreRun", "preRun", "action", "postRun",
                       "persistentPostRun"}

\* every token of the list flag has written its value once and no more, and
\* verbose is marked as set exactly when a token names it
WrittenOnce ==
    /\ store["tags"] = InitialStore["tags"] \o TagValues(input)
    /\ flags["root"][2].set = (TagValues(input) # <<>>)
    /\ flags["root"][1].set = (\E i \in 1..Len(input) : input[i] = DashDash(s_verbose))
    /\ store["rootVerbose"] = flags["root"][1].set

\* C31: every flag token of the vector is parsed by exactly one parsing pass,
\* the one of the command level it stands at, and writes the variable of its
\* binding exactly once; from the start of the first lifecycle hook until
\* Execute returns nothing writes a flag variable or a set marker.
C31_SingleParsingPass ==
    /\ [](resolved # None => WrittenOnce)
    /\ [][InLifecycle => UNCHANGED <<flags, store>>]_vars

\* C31 witness: list values given before and after the subcommand name have
\* each been written once and the hooks have run
C31_Witness ==
    /\ pc = "done"
    /\ input = <<WithValue(DashDash(s_tag), s_v1), s_deploy, WithValue(Dash(s_t), s_v2)>>
    /\ store["tags"] = <<s_v1, s_v2>>
    /\ Len(calls) >= 3


(***************************************************************************)
(* Properties of the help flag                                             *)
(***************************************************************************)
\* the help tokens of a command
HelpNames(c) == {DashDash(commands[c].helpFlag), Dash(commands[c].helpShort)}

\* the first call of execute, on the command Execute was called on, which has
\* help enabled, with a vector holding its help token somewhere
HelpCase ==
    /\ pc = "execute"
    /\ cur = entry
    /\ argv = input
    /\ commands[entry].helpEnabled
    /\ \E i \in 1..Len(input) : input[i] \in HelpNames(entry)

\* C32: when help is enabled on the command Execute is called on and the
\* vector holds its help token (--help, -h or the names set with SetHelpFlag)
\* at any position, Execute returns nil, no flag variable and no set marker is
\* written, and no hook and no handler of any command runs.
C32_HelpShortCircuits ==
    [][HelpCase =>
          /\ pc' = "done"
          /\ result' = Nil
          /\ calls' = <<>>
          /\ flags' = flags
          /\ store' = InitialStore]_vars

\* C32 witness: the root given --verbose, an unknown name and -h has returned
\* nil with verbose untouched and nothing called
C32_Witness ==
    /\ pc = "done"
    /\ entry = "root"
    /\ input = <<DashDash(s_verbose), s_prod, Dash(s_h)>>
    /\ commands["root"].helpFlag = s_help
    /\ commands["root"].helpEnabled
    /\ result = Nil
    /\ helpShown = "root"
    /\ ~store["rootVerbose"]
    /\ calls = <<>>


\* the tokens of the vector before its last one
BeforeLast == SubSeq(input, 1, Len(input) - 1)

\* the vector is a chain of subcommand names below the entry command followed
\* by the help token of the entry command
HelpAfterChain ==
    /\ entry # None
    /\ commands[entry].helpEnabled
    /\ input # <<>>
    /\ input[Len(input)] \in HelpNames(entry)
    /\ ChainTarget(entry, BeforeLast) # None

\* C35: when the help token follows a chain of subcommand names, help is
\* shown for the deepest command those names lead to (for db migrate -h the
\* target is migrate, not db and not the root), and Execute returns nil.
C35_HelpForDeepest ==
    (pc = "done" /\ HelpAfterChain) =>
        /\ result = Nil
        /\ helpShown = ChainTarget(entry, BeforeLast)


(***************************************************************************)
(* Properties of the context                                               *)
(***************************************************************************)
\* the context Execute was given is the one the execution still carries
ContextKept == [][pc # "idle" => ctx' = ctx]_vars

CallsOf(slot, owner) ==
    {i \in 1..Len(calls) : calls[i].hook = slot /\ calls[i].owner = owner}

\* every call made is given the resolved command; PreRun, PostRun and the
\* handler are those of the resolved command itself, the persistent hooks
\* those of the commands on its chain to the root
HooksInScope ==
    \A i \in 1..Len(calls) :
        /\ calls[i].cmd = resolved
        /\ calls[i].hook \in {"preRun", "postRun", "action"} =>
              calls[i].owner = resolved
        /\ calls[i].hook \in {"persistentPreRun", "persistentPostRun"} =>
              calls[i].owner \in Range(LeafToRoot(resolved))

\* an execution that has returned has run the PersistentPostRun of every
\* command of the chain that has one, and, when no hook before the handler
\* failed, the PersistentPreRun of every command of the chain that has one
PersistentForChain ==
    Returned =>
        \A a \in Range(LeafToRoot(resolved)) :
            /\ commands[a].persistentPostRun =>
                  Cardinality(CallsOf("persistentPostRun", a)) = 1
            /\ (commands[a].persistentPreRun
                  /\ Failed("persistentPreRun") = {}) =>
                  Cardinality(CallsOf("persistentPreRun", a)) = 1

\* C34: PreRun and PostRun declared on a command run only when that command
\* itself is the resolved command, never when a descendant is resolved;
\* PersistentPreRun and PersistentPostRun declared on a command run for every
\* execution that resolves to it or to a descendant, and each is given the
\* resolved command as its command argument.
C34_HookScope == HooksInScope /\ PersistentForChain

\* C34 witness: db has all four hooks and migrate was resolved: the persistent
\* hooks of db have run with migrate as their command, its PreRun and PostRun
\* have not
C34_Witness ==
    /\ pc = "done"
    /\ resolved = "migrate"
    /\ commands["db"].preRun /\ commands["db"].postRun
    /\ \E i \in CallsOf("persistentPreRun", "db") : calls[i].cmd = "migrate"
    /\ \E i \in CallsOf("persistentPostRun", "db") : calls[i].cmd = "migrate"
    /\ CallsOf("preRun", "db") = {} /\ CallsOf("postRun", "db") = {}


(***************************************************************************)
(* Shell completion and routing                                            *)
(***************************************************************************)
\* completion has been registered on the root
CompletionAdded == s_bashcomplete \in DOMAIN subcommands["root"]

\* the action of deploy has been called with the given arguments
DeployCalledWith(args) ==
    \E i \in 1..Len(calls) :
        /\ calls[i].hook = "action"
        /\ calls[i].owner = "deploy"
        /\ calls[i].args = args

\* C36: registering shell completion does not change how an ordinary
\* invocation is routed.  After AddCompletion(root), as before it, the root
\* given deploy prod, where deploy is a visible leaf command declaring one
\* positional argument, ends by calling the handler of deploy with prod and
\* not with a CommandNotFoundError.
C36_CompletionKeepsRouting ==
    (pc = "done" /\ entry = "root" /\ input = <<s_deploy, s_prod>>)
        => /\ result.kind # "CommandNotFoundError"
           /\ DeployCalledWith(<<s_prod>>)


(***************************************************************************)
(* Bindings after a failed execution                                       *)
(***************************************************************************)
\* Execute has returned a routing, flag-parsing, required-flag or
\* argument-count error: an error of execute itself, before any user function
ExecuteRefused ==
    /\ pc = "done"
    /\ calls = <<>>
    /\ result.kind \in {"CommandNotFoundError", "FlagError", "ArgumentError"}

\* no variable and no set marker differs from what it was before the call
BindingsAsBefore ==
    /\ store = InitialStore
    /\ \A c \in DOMAIN flags : \A i \in 1..Len(flags[c]) : ~flags[c][i].set

\* C37: if Execute returns a routing, flag-parsing, required-flag or
\* argument-count error, that execution has modified no flag variable and no
\* set marker, flags given earlier in the vector or at an ancestor level
\* before the failing token included.
C37_FailedExecutionLeavesBindings == ExecuteRefused => BindingsAsBefore


(***************************************************************************)
(* FlagRequired and FlagHidden                                             *)
(***************************************************************************)
\* the step has added a binding backed by ptr at the end of the flags of c,
\* that binding has the attribute, and no binding declared earlier changed
MarksOwnBinding(c, ptr, attr) ==
    /\ Len(flags'[c]) = Len(flags[c]) + 1
    /\ flags'[c][Len(flags'[c])].ptr = ptr
    /\ flags'[c][Len(flags'[c])][attr]
    /\ \A i \in 1..Len(flags[c]) : flags'[c][i] = flags[c][i]

\* C38: FlagRequired and FlagHidden mark exactly the binding they have just
\* added.  After FlagRequired(ptr, name, ...) the binding backed by ptr is
\* required, after FlagHidden(ptr, name, ...) it is hidden, and no other
\* binding's attributes change, also when name is the primary name or the
\* short name of a binding added earlier on the same command.
C38_MarksBindingJustAdded ==
    [][\A c \in DeclaringCommands, ptr \in DeclaredPtrs, name \in DeclaredNames,
          shorthand \in DeclaredShorts, defaultValue \in DeclaredDefaults :
          /\ DeclareFlagRequired(c, ptr, name, shorthand, defaultValue)
                => MarksOwnBinding(c, ptr, "required")
          /\ DeclareFlagHidden(c, ptr, name, shorthand, defaultValue)
                => MarksOwnBinding(c, ptr, "hidden")]_vars


\* a call of execute on a command without subcommands and without a variadic
\* handler, all tokens positional: the argument-count check decides
CountCheckCase ==
    /\ pc = "execute"
    /\ DOMAIN subcommands[cur] = {}
    /\ AllPositional(argv)
    /\ ~commands[cur].action.variadic

\* the step has passed the count check and handed the tokens to executeAction
CountCheckPassed ==
    /\ pc' = "persistentPreRun"
    /\ resolved' = cur
    /\ remaining' = argv

\* the binding step of a handler without a variadic parameter that is given
\* more tokens than it has parameters, each of the first ones convertible
SurplusCase ==
    /\ BindingStep
    /\ ~commands[resolved].action.variadic
    /\ Len(remaining) > Len(Params)
    /\ FailingAmong(Len(Params)) = {}

\* C39: for a handler without a variadic parameter the argument-count check
\* compares the number of positional tokens with the number of Arg
\* declarations, whatever the number of parameters of the handler: the check
\* passes exactly when tokens <= declarations.  Tokens beyond the handler's
\* parameters are then dropped without an error: the handler is called with
\* the first ones only.  A handler with more parameters than declarations
\* never receives a token for an undeclared parameter.
C39_CountAgainstDeclarations ==
    /\ [][CountCheckCase =>
             (CountCheckPassed <=> Len(argv) <= Len(commands[cur].args))]_vars
    /\ [][SurplusCase =>
             /\ HandlerCalled
             /\ Len(calls'[Len(calls')].args) = Len(Params)
             /\ \A i \in 1..Len(Params) :
                   calls'[Len(calls')].args[i] = ValueAs(remaining[i], Params[i])
             /\ result'.kind # "ArgumentError"]_vars
    /\ []((pc = "action" /\ ~commands[resolved].action.variadic)
             => Len(remaining) <= Len(Decls))

\* C39 witness: deploy with two declarations and a handler of one parameter,
\* given a and b, has passed the check and called the handler with a alone
C39_Witness ==
    /\ pc = "postRun"
    /\ resolved = "deploy"
    /\ Len(commands["deploy"].args) = 2
    /\ commands["deploy"].action = Handler(<<"string">>)
    /\ remaining = <<s_a, s_b>>
    /\ calls # <<>>
    /\ calls[Len(calls)].hook = "action"
    /\ calls[Len(calls)].args = <<s_a>>


(***************************************************************************)
(* Termination                                                             *)
(***************************************************************************)
\* the number of tokens of a vector that do not start with a dash
RECURSIVE CountPositional(_)
CountPositional(s) ==
    IF s = <<>> THEN 0
    ELSE (IF IsFlagToken(Head(s)) THEN 0 ELSE 1) + CountPositional(Tail(s))

\* the number of descents made so far: the levels between the command
\* Execute was called on and the command execute is running on
Descents == Len(Ancestors(cur)) - Len(Ancestors(entry))

\* every walk up the parent links ends at a command without a parent after
\* at most as many steps as there are commands
WalksReachRoot ==
    \A c \in Commands :
        /\ Len(Ancestors(c)) <= Cardinality(Commands)
        /\ parent[Ancestors(c)[1]] = None

\* C40: Execute terminates for every finite token vector on every command
\* tree whose parent links are acyclic, given hooks and handlers that
\* terminate.  Every call of Execute returns; each descent into a subcommand
\* passes a strictly shorter vector, so the number of descents is at most the
\* number of tokens without a dash; and every walk up the parent links
\* reaches the root.
C40_ExecuteTerminates ==
    /\ (pc = "execute") ~> (pc = "done")
    /\ [][(pc = "execute" /\ pc' = "execute") => Len(argv') < Len(argv)]_vars
    /\ [](pc = "execute" =>
             Descents <= CountPositional(input) - CountPositional(argv))
    /\ []WalksReachRoot

\* C40 witness: on the tree root -> deploy -> db -> migrate the root given
\* deploy db migrate has descended three times and returned
C40_Witness ==
    /\ pc = "done"
    /\ entry = "root"
    /\ parent = [root |-> None, deploy |-> "root", db |-> "deploy", migrate |-> "db"]
    /\ input = <<s_deploy, s_db, s_migrate>>
    /\ resolved = "migrate"
    /\ calls # <<>>

====
